---- MODULE Spec2Model ----
(***************************************************************************)
(* Request-correlation and error-normalisation pipeline of the AINative    *)
(* backend: ObservabilityMiddleware.dispatch and the four exception        *)
(* handlers of ainative.app.exceptions, installed on the FastAPI           *)
(* application that tests/infrastructure/test_observability_middleware.py  *)
(* builds; further down, the same handlers called on their own, the agent  *)
(* routes of infrastructure/api/route_handler.py, setup_datasources of     *)
(* monitoring/grafana.py, the two versions of setup_opentelemetry, the     *)
(* HTTPException handler of infrastructure/main.py and the frontend-log    *)
(* endpoint of app/api/endpoints/logging.py.                               *)
(*                                                                         *)
(* Conventions.  A Python str that the code formats, slices or concatenates*)
(* (correlation ids, the body's type and instance, header values) is a     *)
(* sequence of one-character strings; a str that is only passed along      *)
(* (titles, messages, details) is a TLA+ string.  Python's None is the     *)
(* value None below.  A mapping (headers, request.state, app.state, a JSON *)
(* object) is a function whose DOMAIN is the set of keys present.          *)
(*                                                                         *)
(* The code between two awaits runs without interleaving (one asyncio      *)
(* event loop), so each action is one such section of one request.         *)
(***************************************************************************)
EXTENDS Integers, Sequences, FiniteSets, TLC

\* ------------------------------------------------------------------ bounds
NumRequests == 2
Requests == 1..NumRequests

\* ------------------------------------------------------- program constants
HTTP_422_UNPROCESSABLE_ENTITY == 422
HTTP_500_INTERNAL_SERVER_ERROR == 500
HTTP_200_OK == 200

\* ------------------------------------------------------------ basic values
None == <<"None">>
EmptyMap == [k \in {} |-> None]
HexChars == <<"0","1","2","3","4","5","6","7","8","9","a","b","c","d","e","f">>
DecChars == <<"0","1","2","3","4","5","6","7","8","9">>

RECURSIVE IntToStr(_)
IntToStr(n) ==
  IF n < 10 THEN <<DecChars[n + 1]>>
  ELSE IntToStr(n \div 10) \o <<DecChars[(n % 10) + 1]>>

EndsWith(s, suffix) ==
  /\ Len(s) >= Len(suffix)
  /\ SubSeq(s, Len(s) - Len(suffix) + 1, Len(s)) = suffix

GetAttr(obj, name, default) == IF name \in DOMAIN obj THEN obj[name] ELSE default
HasAttr(obj, name) == name \in DOMAIN obj
SetAttr(obj, name, value) == (name :> value) @@ obj
HeadersGet(headers, name) == IF name \in DOMAIN headers THEN headers[name] ELSE None
Falsy(v) == v = None \/ v = <<>>

\* ------------------------------------------------------------ uuid.uuid4()
\* The 32 hex nibbles of the 16 random bytes os.urandom returns to the call
\* made for request number seed: arbitrary, and different for each call.
urandom(seed) == [k \in 1..32 |-> (seed * 7 + k * k * 3 + k) % 16]

\* UUID(bytes=..., version=4): variant bits forced to 10, version nibble to 4.
uuid4(seed) ==
  [k \in 1..32 |->
     IF k = 13 THEN 4
     ELSE IF k = 17 THEN 8 + (urandom(seed)[k] % 4)
     ELSE urandom(seed)[k]]

\* UUID.__str__: '%032x' split 8-4-4-4-12 and joined by dashes.
UuidStr(u) ==
  LET hex == [k \in 1..32 |-> HexChars[u[k] + 1]]
  IN SubSeq(hex, 1, 8) \o <<"-">> \o SubSeq(hex, 9, 12) \o <<"-">> \o
     SubSeq(hex, 13, 16) \o <<"-">> \o SubSeq(hex, 17, 20) \o <<"-">> \o
     SubSeq(hex, 21, 32)

\* ------------------------------------------------------------- request URL
Scheme == <<"h","t","t","p">>
Netloc == <<"t","e","s","t","s","e","r","v","e","r">>
PathTestRoute == <<"/","t","e","s","t","-","r","o","u","t","e">>
PathHttpException == <<"/","h","t","t","p","-","e","x","c","e","p","t","i","o","n">>
PathAppException == <<"/","a","p","p","-","e","x","c","e","p","t","i","o","n">>
PathUnhandledException ==
  <<"/","u","n","h","a","n","d","l","e","d","-","e","x","c","e","p","t","i","o","n">>
PathValidationError ==
  <<"/","v","a","l","i","d","a","t","i","o","n","-","e","r","r","o","r">>
PathManualValidationError ==
  <<"/","m","a","n","u","a","l","-","v","a","l","i","d","a","t","i","o","n","-","e","r","r","o","r">>

URL(path) == [scheme |-> Scheme, netloc |-> Netloc, path |-> path, query |-> <<>>]

\* str(request.url)
URLStr(url) ==
  url.scheme \o <<":","/","/">> \o url.netloc \o url.path \o
  (IF url.query = <<>> THEN <<>> ELSE <<"?">> \o url.query)

\* -------------------------------------------------------------- exceptions
\* fastapi.HTTPException(status_code, detail)
HTTPException(status_code, detail) ==
  [cls |-> "HTTPException", status_code |-> status_code, detail |-> detail]

\* starlette.exceptions.HTTPException, raised by the router itself
StarletteHTTPException(status_code, detail) ==
  [cls |-> "StarletteHTTPException", status_code |-> status_code, detail |-> detail]

\* AppException.__init__(detail, status_code=HTTP_500_INTERNAL_SERVER_ERROR);
\* args is <<>> when the caller omits status_code and <<status_code>> otherwise.
AppException(detail, args) ==
  [cls |-> "AppException", detail |-> detail,
   status_code |-> IF args = <<>> THEN HTTP_500_INTERNAL_SERVER_ERROR ELSE args[1]]

\* pydantic.ValidationError; errors() returns the list it was built with.
ValidationError(errors) == [cls |-> "ValidationError", errors |-> errors]

\* fastapi.exceptions.RequestValidationError
RequestValidationError(errors) == [cls |-> "RequestValidationError", errors |-> errors]

\* any other exception class, e.g. ValueError("Something went very wrong")
OtherException(cls, message) == [cls |-> cls, message |-> message]

\* type(exc).__mro__ up to Exception
Mro(cls) ==
  CASE cls = "HTTPException" -> <<"HTTPException", "StarletteHTTPException", "Exception">>
    [] cls = "StarletteHTTPException" -> <<"StarletteHTTPException", "Exception">>
    [] cls = "AppException" -> <<"AppException", "Exception">>
    [] cls = "ValidationError" -> <<"ValidationError", "ValueError", "Exception">>
    [] cls = "RequestValidationError" ->
         <<"RequestValidationError", "ValidationException", "Exception">>
    [] cls = "ValueError" -> <<"ValueError", "Exception">>
    [] OTHER -> <<cls, "Exception">>

\* ------------------------------------------------- pydantic model Item
ItemFields == <<[name |-> "name", annotation |-> "str"],
                [name |-> "price", annotation |-> "float"]>>

\* A value is known by its Python type and, for a str, whether it parses as
\* a number: "str", "numeric_str", "int", "float".
Accepts(annotation, valueType) ==
  CASE annotation = "str" -> valueType \in {"str", "numeric_str"}
    [] annotation = "float" -> valueType \in {"int", "float", "numeric_str"}

TypeError(annotation, valueType) ==
  CASE annotation = "str" -> [type |-> "string_type", msg |-> "Input should be a valid string"]
    [] annotation = "float" /\ valueType = "str" ->
         [type |-> "float_parsing",
          msg |-> "Input should be a valid number, unable to parse string as a number"]
    [] OTHER -> [type |-> "float_type", msg |-> "Input should be a valid number"]

\* The error list pydantic reports for data against Item, one entry per
\* failing field, in field order; loc is locPrefix followed by the field.
RECURSIVE ItemErrorsFrom(_, _, _)
ItemErrorsFrom(i, data, locPrefix) ==
  IF i > Len(ItemFields) THEN <<>>
  ELSE
    LET f == ItemFields[i]
        here ==
          IF f.name \notin DOMAIN data
          THEN <<[type |-> "missing", loc |-> locPrefix \o <<f.name>>,
                  msg |-> "Field required"]>>
          ELSE IF Accepts(f.annotation, data[f.name]) THEN <<>>
          ELSE <<[type |-> TypeError(f.annotation, data[f.name]).type,
                  loc |-> locPrefix \o <<f.name>>,
                  msg |-> TypeError(f.annotation, data[f.name]).msg]>>
    IN here \o ItemErrorsFrom(i + 1, data, locPrefix)

ItemErrors(data, locPrefix) == ItemErrorsFrom(1, data, locPrefix)

\* ------------------------------------------------------------- responses
ApplicationJson ==
  <<"a","p","p","l","i","c","a","t","i","o","n","/","j","s","o","n">>

\* JSONResponse(status_code=..., content=...); content is a JSON value and
\* is what the client decodes from the body.
JSONResponse(status_code, content) ==
  [status_code |-> status_code,
   headers |-> ("content-type" :> ApplicationJson),
   body |-> content]

NA == <<"N","/","A">>
NotSet == <<"n","o","t","-","s","e","t">>
ErrorsPrefix == <<"/","e","r","r","o","r","s","/">>
TypeInternalServerError ==
  ErrorsPrefix \o <<"i","n","t","e","r","n","a","l","-","s","e","r","v","e","r","-","e","r","r","o","r">>
TypeHttpPrefix == ErrorsPrefix \o <<"h","t","t","p","/">>
TypeApplicationSpecificError ==
  ErrorsPrefix \o <<"a","p","p","l","i","c","a","t","i","o","n","-","s","p","e","c","i","f","i","c","-","e","r","r","o","r">>
TypeValidationError ==
  ErrorsPrefix \o <<"v","a","l","i","d","a","t","i","o","n","-","e","r","r","o","r">>
GenericDetail == "An unexpected error occurred."

\* ------------------------------------------------------ exception handlers
\* Each handler yields the response it returns, app.state as it leaves it
\* (last_error_log is written only when that attribute already exists) and
\* the log records it emits through the module logger.
WriteLastErrorLog(appState, value) ==
  IF HasAttr(appState, "last_error_log")
  THEN SetAttr(appState, "last_error_log", value)
  ELSE appState

generic_exception_handler(requestState, appState, url, exc) ==
  LET correlation_id == GetAttr(requestState, "correlation_id", NA)
      error_details ==
        [type |-> TypeInternalServerError,
         title |-> "Internal Server Error",
         status |-> HTTP_500_INTERNAL_SERVER_ERROR,
         detail |-> GenericDetail,
         instance |-> URLStr(url),
         correlation_id |-> correlation_id]
  IN [response |-> JSONResponse(HTTP_500_INTERNAL_SERVER_ERROR, error_details),
      app_state |->
        WriteLastErrorLog(appState,
          [message |-> "Unhandled generic exception caught by handler",
           exc_info |-> exc,
           correlation_id |-> correlation_id,
           error_details |-> error_details]),
      logged |->
        <<[level |-> "ERROR",
           message |-> "Unhandled generic exception occurred",
           exc_info |-> exc,
           correlation_id |-> correlation_id,
           request_url |-> URLStr(url)]>>]

\* mutant: the type keeps the earlier "/errors/http-error/" prefix
http_exception_handler_old_type(requestState, appState, url, exc) ==
  LET correlation_id == GetAttr(requestState, "correlation_id", NotSet)
  IN [response |->
        JSONResponse(exc.status_code,
          [type |-> ErrorsPrefix \o <<"h","t","t","p","-","e","r","r","o","r","/">>
                      \o IntToStr(exc.status_code),
           title |-> "HTTP Error",
           status |-> exc.status_code,
           detail |-> exc.detail,
           instance |-> URLStr(url),
           correlation_id |-> correlation_id]),
      app_state |->
        WriteLastErrorLog(appState,
          [type |-> "http", exc |-> exc.detail, status_code |-> exc.status_code,
           correlation_id |-> correlation_id]),
      logged |-> <<>>]

http_exception_handler(requestState, appState, url, exc) ==
  LET correlation_id == GetAttr(requestState, "correlation_id", NotSet)
  IN [response |->
        JSONResponse(exc.status_code,
          [type |-> TypeHttpPrefix \o IntToStr(exc.status_code),
           title |-> "HTTP Error",
           status |-> exc.status_code,
           detail |-> exc.detail,
           instance |-> URLStr(url),
           correlation_id |-> correlation_id]),
      app_state |->
        WriteLastErrorLog(appState,
          [type |-> "http", exc |-> exc.detail, status_code |-> exc.status_code,
           correlation_id |-> correlation_id]),
      logged |-> <<>>]

\* mutant: status_code is not passed to JSONResponse, which defaults to 200
app_exception_handler_default_status(requestState, appState, url, exc) ==
  LET correlation_id == GetAttr(requestState, "correlation_id", NotSet)
  IN [response |->
        JSONResponse(HTTP_200_OK,
          [type |-> TypeApplicationSpecificError,
           title |-> "Application Specific Error",
           status |-> exc.status_code,
           detail |-> exc.detail,
           instance |-> URLStr(url),
           correlation_id |-> correlation_id]),
      app_state |->
        WriteLastErrorLog(appState,
          [type |-> "app", exc |-> exc.detail, status_code |-> exc.status_code,
           correlation_id |-> correlation_id]),
      logged |-> <<>>]

app_exception_handler(requestState, appState, url, exc) ==
  LET correlation_id == GetAttr(requestState, "correlation_id", NotSet)
  IN [response |->
        JSONResponse(exc.status_code,
          [type |-> TypeApplicationSpecificError,
           title |-> "Application Specific Error",
           status |-> exc.status_code,
           detail |-> exc.detail,
           instance |-> URLStr(url),
           correlation_id |-> correlation_id]),
      app_state |->
        WriteLastErrorLog(appState,
          [type |-> "app", exc |-> exc.detail, status_code |-> exc.status_code,
           correlation_id |-> correlation_id]),
      logged |-> <<>>]

\* mutant: only the first error is reported
validation_exception_handler_first_error(requestState, appState, url, exc) ==
  LET correlation_id == GetAttr(requestState, "correlation_id", NotSet)
      errors == exc.errors
  IN [response |->
        JSONResponse(HTTP_422_UNPROCESSABLE_ENTITY,
          [type |-> TypeValidationError,
           title |-> "Validation Error",
           status |-> HTTP_422_UNPROCESSABLE_ENTITY,
           detail |-> <<errors[1]>>,
           instance |-> URLStr(url),
           correlation_id |-> correlation_id]),
      app_state |->
        WriteLastErrorLog(appState,
          [type |-> "validation", exc |-> errors, correlation_id |-> correlation_id]),
      logged |-> <<>>]

validation_exception_handler(requestState, appState, url, exc) ==
  LET correlation_id == GetAttr(requestState, "correlation_id", NotSet)
      errors == exc.errors
  IN [response |->
        JSONResponse(HTTP_422_UNPROCESSABLE_ENTITY,
          [type |-> TypeValidationError,
           title |-> "Validation Error",
           status |-> HTTP_422_UNPROCESSABLE_ENTITY,
           detail |-> errors,
           instance |-> URLStr(url),
           correlation_id |-> correlation_id]),
      app_state |->
        WriteLastErrorLog(appState,
          [type |-> "validation", exc |-> errors, correlation_id |-> correlation_id]),
      logged |-> <<>>]

\* ------------------------------------- framework handlers and registration
\* fastapi.exception_handlers.http_exception_handler, FastAPI's default for
\* starlette.exceptions.HTTPException
fastapi_http_exception_handler(requestState, appState, url, exc) ==
  [response |-> JSONResponse(exc.status_code, [detail |-> exc.detail]),
   app_state |-> appState,
   logged |-> <<>>]

\* fastapi.exception_handlers.request_validation_exception_handler,
\* FastAPI's default for RequestValidationError
request_validation_exception_handler(requestState, appState, url, exc) ==
  [response |-> JSONResponse(HTTP_422_UNPROCESSABLE_ENTITY, [detail |-> exc.errors]),
   app_state |-> appState,
   logged |-> <<>>]

\* mutant: no handler is registered for AppException
exception_handlers_without_app ==
  ("StarletteHTTPException" :> "fastapi_http_exception_handler") @@
  ("RequestValidationError" :> "request_validation_exception_handler") @@
  ("Exception" :> "generic_exception_handler") @@
  ("HTTPException" :> "http_exception_handler") @@
  ("ValidationError" :> "validation_exception_handler")

\* app.exception_handlers: FastAPI()'s defaults, then the four
\* add_exception_handler calls of the application.
exception_handlers ==
  ("StarletteHTTPException" :> "fastapi_http_exception_handler") @@
  ("RequestValidationError" :> "request_validation_exception_handler") @@
  ("Exception" :> "generic_exception_handler") @@
  ("HTTPException" :> "http_exception_handler") @@
  ("AppException" :> "app_exception_handler") @@
  ("ValidationError" :> "validation_exception_handler")

\* build_middleware_stack: the handler registered for Exception goes to the
\* outermost ServerErrorMiddleware, every other handler to the innermost
\* ExceptionMiddleware; add_middleware puts ObservabilityMiddleware between.
ServerErrorHandlerKeys == {"Exception"}
ExceptionMiddlewareKeys == DOMAIN exception_handlers \ ServerErrorHandlerKeys

NoHandler == "no handler"

RECURSIVE LookupFrom(_, _)
LookupFrom(mro, i) ==
  IF i > Len(mro) THEN NoHandler
  ELSE IF mro[i] \in ExceptionMiddlewareKeys THEN exception_handlers[mro[i]]
  ELSE LookupFrom(mro, i + 1)

\* ExceptionMiddleware's lookup: the handler of the first class of the
\* exception's MRO that has one, NoHandler when there is none.
LookupHandler(exc) == LookupFrom(Mro(exc.cls), 1)

CallHandler(handler, requestState, appState, url, exc) ==
  CASE handler = "generic_exception_handler" ->
         generic_exception_handler(requestState, appState, url, exc)
    [] handler = "http_exception_handler" ->
         http_exception_handler(requestState, appState, url, exc)
    [] handler = "app_exception_handler" ->
         app_exception_handler(requestState, appState, url, exc)
    [] handler = "validation_exception_handler" ->
         validation_exception_handler(requestState, appState, url, exc)
    [] handler = "fastapi_http_exception_handler" ->
         fastapi_http_exception_handler(requestState, appState, url, exc)
    [] handler = "request_validation_exception_handler" ->
         request_validation_exception_handler(requestState, appState, url, exc)

\* -------------------------------------------------------------- the inputs
XCorrelationID == "X-Correlation-ID"
\* the id a client puts in the header of its r-th request
ClientId(r) == IF r % 2 = 1 THEN <<"a","b","c">> \o IntToStr(r) ELSE <<"R","-">> \o IntToStr(r)
\* the W3C trace context a tracing client sends: 00-<trace id>-<span id>-01
TraceparentName == "traceparent"
ClientTraceId ==
  <<"0","a","f","7","6","5","1","9","1","6","c","d","4","3","d","d","8","4","4","8","e","b","2","1","1","c","8","0","3","1","9","c">>
ClientSpanId == <<"b","7","a","d","6","b","7","1","6","9","2","0","3","3","3","1">>
Traceparent(trace_id, parent_id, flags) ==
  <<"0","0","-">> \o trace_id \o <<"-">> \o parent_id \o <<"-">> \o flags
\* request headers: no X-Correlation-ID, an empty one, or those of a client
\* that sends its correlation id together with its trace context
RequestHeaderChoices(r) ==
  { EmptyMap,
    XCorrelationID :> <<>>,
    (XCorrelationID :> ClientId(r)) @@
    (TraceparentName :> Traceparent(ClientTraceId, ClientSpanId, <<"0","1">>)) }

\* JSON bodies posted to /validation-error: {"name": "Test Item"} and
\* {"name": "Test Item", "price": 9.5}
PostBodies == { [name |-> "str"], [name |-> "str", price |-> "float"] }

\* what the routes raise: HTTPException(status_code, detail),
\* AppException(detail[, status_code]), ValueError(message)
RaisedHTTPExceptions == { <<403, "Forbidden access">>, <<404, "No such item">> }
RaisedAppExceptions ==
  { <<"Custom app error occurred", <<400>> >>, <<"Out of stock", <<>> >> }
RaisedMessages == {"Something went very wrong", "boom"}
\* keyword arguments a route validates by hand, as in
\* Item(name=7, price="not-a-float"): two fields fail, in field order
ManualItemInputs == { [name |-> "int", price |-> "str"] }

\* ------------------------------------------------------------------- state
VARIABLES
  pc,               \* where each request is in the pipeline
  request,          \* the request: method, url, headers, json
  request_state,    \* request.state (scope["state"]), shared down the stack
  correlation_id,   \* dispatch's local variable correlation_id
  call_next_result, \* what await call_next(request) yields: response or exc
  dispatch_result,  \* "pending", "returned" or "raised"
  client_response,  \* the response sent to the client
  server_raised,    \* the exception ServerErrorMiddleware re-raised to the server
  route_outcome,    \* history: what the routing of the request ended in
  app_state,        \* the state of the process: request.app.state
  uuid_calls,       \* number of uuid.uuid4() calls so far
  log               \* records emitted through the module logger, per request

vars == <<pc, request, request_state, correlation_id, call_next_result,
          dispatch_result, client_response, server_raised, route_outcome, app_state,
          uuid_calls, log>>

Init ==
  /\ pc = [r \in Requests |-> "idle"]
  /\ request = [r \in Requests |-> EmptyMap]
  /\ request_state = [r \in Requests |-> EmptyMap]
  /\ correlation_id = [r \in Requests |-> None]
  /\ call_next_result = [r \in Requests |-> EmptyMap]
  /\ dispatch_result = [r \in Requests |-> "pending"]
  /\ client_response = [r \in Requests |-> EmptyMap]
  /\ server_raised = [r \in Requests |-> EmptyMap]
  /\ route_outcome = [r \in Requests |-> EmptyMap]
  /\ app_state = EmptyMap
  /\ uuid_calls = 0
  /\ log = [r \in Requests |-> <<>>]

\* ------------------------------------------- ObservabilityMiddleware.dispatch
\* mutant: line 37 is missing, request.state never gets the correlation id
dispatch_without_state(r) ==
  /\ pc[r] = "idle"
  /\ \E headers \in RequestHeaderChoices(r) :
       LET received == HeadersGet(headers, XCorrelationID)
           generate == Falsy(received)
           cid == IF generate THEN UuidStr(uuid4(r)) ELSE received
           withContext ==
             IF HasAttr(app_state, "logger_context") THEN app_state
             ELSE SetAttr(app_state, "logger_context", EmptyMap)
           bound ==
             SetAttr(withContext, "logger_context",
                     SetAttr(withContext["logger_context"], "correlation_id", cid))
       IN /\ request' = [request EXCEPT ![r] = [headers |-> headers]]
          /\ uuid_calls' = IF generate THEN uuid_calls + 1 ELSE uuid_calls
          /\ correlation_id' = [correlation_id EXCEPT ![r] = cid]
          /\ request_state' = request_state
          /\ app_state' = SetAttr(bound, "otel_propagated", TRUE)
  /\ pc' = [pc EXCEPT ![r] = "call_next"]
  /\ UNCHANGED <<call_next_result, dispatch_result, client_response,
                 server_raised, route_outcome, log>>

\* Lines 33-61: a request arrives and dispatch runs up to await call_next.
\* dispatch reads nothing of the request but its headers; the request line
\* and body are first read by the router, where the model draws them.
dispatch(r) ==
  /\ pc[r] = "idle"
  /\ \E headers \in RequestHeaderChoices(r) :
       LET received == HeadersGet(headers, XCorrelationID)
           generate == Falsy(received)
           cid == IF generate THEN UuidStr(uuid4(r)) ELSE received
           withContext ==
             IF HasAttr(app_state, "logger_context") THEN app_state
             ELSE SetAttr(app_state, "logger_context", EmptyMap)
           bound ==
             SetAttr(withContext, "logger_context",
                     SetAttr(withContext["logger_context"], "correlation_id", cid))
       IN /\ request' = [request EXCEPT ![r] = [headers |-> headers]]
          /\ uuid_calls' = IF generate THEN uuid_calls + 1 ELSE uuid_calls
          /\ correlation_id' = [correlation_id EXCEPT ![r] = cid]
          /\ request_state' = [request_state EXCEPT ![r] =
               SetAttr(request_state[r], "correlation_id", cid)]
          /\ app_state' = SetAttr(bound, "otel_propagated", TRUE)
  /\ pc' = [pc EXCEPT ![r] = "call_next"]
  /\ UNCHANGED <<call_next_result, dispatch_result, client_response,
                 server_raised, route_outcome, log>>

\* mutant: the headers are replaced, not added to
dispatch_return_fresh_headers(r) ==
  /\ pc[r] = "resume"
  /\ "response" \in DOMAIN call_next_result[r]
  /\ LET response == call_next_result[r].response
     IN client_response' = [client_response EXCEPT ![r] =
          [response EXCEPT !.headers = XCorrelationID :> correlation_id[r]]]
  /\ call_next_result' = [call_next_result EXCEPT ![r] = EmptyMap]
  /\ dispatch_result' = [dispatch_result EXCEPT ![r] = "returned"]
  /\ pc' = [pc EXCEPT ![r] = "done"]
  /\ UNCHANGED <<request, request_state, correlation_id, server_raised,
                 route_outcome, app_state, uuid_calls, log>>

\* Lines 63-65, call_next returned a response: set the header and return it.
dispatch_return(r) ==
  /\ pc[r] = "resume"
  /\ "response" \in DOMAIN call_next_result[r]
  /\ LET response == call_next_result[r].response
     IN client_response' = [client_response EXCEPT ![r] =
          [response EXCEPT !.headers =
             SetAttr(response.headers, XCorrelationID, correlation_id[r])]]
  /\ call_next_result' = [call_next_result EXCEPT ![r] = EmptyMap]
  /\ dispatch_result' = [dispatch_result EXCEPT ![r] = "returned"]
  /\ pc' = [pc EXCEPT ![r] = "done"]
  /\ UNCHANGED <<request, request_state, correlation_id, server_raised,
                 route_outcome, app_state, uuid_calls, log>>

\* Line 63, call_next raised: dispatch has no try, the exception leaves it.
dispatch_raise(r) ==
  /\ pc[r] = "resume"
  /\ "exc" \in DOMAIN call_next_result[r]
  /\ dispatch_result' = [dispatch_result EXCEPT ![r] = "raised"]
  /\ pc' = [pc EXCEPT ![r] = "server_error"]
  /\ UNCHANGED <<request, request_state, correlation_id, call_next_result,
                 client_response, server_raised, route_outcome, app_state,
                 uuid_calls, log>>

\* ------------------------------------------------------ the framework's part
\* ExceptionMiddleware around the router: an exception with a registered
\* handler becomes that handler's response, any other one is re-raised.
Raise(r, exc) ==
  LET handler == LookupHandler(exc)
      result == CallHandler(handler, request_state[r], app_state, request'[r].url, exc)
  IN IF handler = NoHandler
     THEN /\ call_next_result' = [call_next_result EXCEPT ![r] = [exc |-> exc]]
          /\ route_outcome' = [route_outcome EXCEPT ![r] = [exc |-> exc]]
          /\ UNCHANGED <<app_state, log>>
     ELSE /\ route_outcome' = [route_outcome EXCEPT ![r] = [exc |-> exc]]
          /\ call_next_result' =
               [call_next_result EXCEPT ![r] = [response |-> result.response]]
          /\ app_state' = result.app_state
          /\ log' = [log EXCEPT ![r] = log[r] \o result.logged]

Return(r, status_code, content) ==
  /\ call_next_result' =
       [call_next_result EXCEPT ![r] = [response |-> JSONResponse(status_code, content)]]
  /\ route_outcome' = [route_outcome EXCEPT ![r] = [returned |-> content]]
  /\ UNCHANGED <<app_state, log>>

\* The router matches the request's method and path to a route.
Routed(r, method, path, json) ==
  /\ pc[r] = "call_next"
  /\ request' = [request EXCEPT ![r] =
       [method |-> method, url |-> URL(path), headers |-> request[r].headers,
        json |-> json]]
  /\ pc' = [pc EXCEPT ![r] = "resume"]
  /\ UNCHANGED <<request_state, correlation_id, dispatch_result,
                 client_response, server_raised, uuid_calls>>

\* ServerErrorMiddleware: runs the handler registered for Exception, sends
\* its response, and always re-raises the exception to the server.
ServerErrorMiddleware(r) ==
  /\ pc[r] = "server_error"
  /\ LET exc == call_next_result[r].exc
         result == CallHandler(exception_handlers["Exception"], request_state[r],
                               app_state, request[r].url, exc)
     IN /\ client_response' = [client_response EXCEPT ![r] = result.response]
        /\ app_state' = result.app_state
        /\ log' = [log EXCEPT ![r] = log[r] \o result.logged]
        /\ server_raised' = [server_raised EXCEPT ![r] = [exc |-> exc]]
  /\ call_next_result' = [call_next_result EXCEPT ![r] = EmptyMap]
  /\ pc' = [pc EXCEPT ![r] = "done"]
  /\ UNCHANGED <<request, request_state, correlation_id, dispatch_result,
                 route_outcome, uuid_calls>>

\* ------------------------------------------------- the application's routes
read_test_route(r) ==
  /\ Routed(r, "GET", PathTestRoute, EmptyMap)
  /\ Return(r, HTTP_200_OK,
       [message |-> "success",
        correlation_id_in_state |-> GetAttr(request_state[r], "correlation_id", None),
        logger_context |-> GetAttr(app_state, "logger_context", None),
        otel_propagated |-> GetAttr(app_state, "otel_propagated", FALSE)])

raise_http_exception(r) ==
  /\ Routed(r, "GET", PathHttpException, EmptyMap)
  /\ \E raised \in RaisedHTTPExceptions :
       Raise(r, HTTPException(raised[1], raised[2]))

raise_app_exception(r) ==
  /\ Routed(r, "GET", PathAppException, EmptyMap)
  /\ \E raised \in RaisedAppExceptions :
       Raise(r, AppException(raised[1], raised[2]))

raise_unhandled_exception(r) ==
  /\ Routed(r, "GET", PathUnhandledException, EmptyMap)
  /\ \E message \in RaisedMessages : Raise(r, OtherException("ValueError", message))

\* mutant: the route's parameter is not declared as Item, nothing is validated
post_validation_error_unvalidated(r) ==
  /\ \E json \in PostBodies :
       /\ Routed(r, "POST", PathValidationError, json)
       /\ Return(r, HTTP_200_OK, json)

\* FastAPI validates the body against Item before the route runs.
post_validation_error(r) ==
  /\ \E json \in PostBodies :
       /\ Routed(r, "POST", PathValidationError, json)
       /\ LET errors == ItemErrors(json, <<"body">>)
          IN IF errors # <<>>
             THEN Raise(r, RequestValidationError(errors))
             ELSE Return(r, HTTP_200_OK, json)

get_manual_validation_error(r) ==
  /\ Routed(r, "GET", PathManualValidationError, EmptyMap)
  /\ \E data \in ManualItemInputs :
       LET errors == ItemErrors(data, <<>>)
       IN IF errors # <<>>
          THEN Raise(r, ValidationError(errors))
          ELSE Return(r, HTTP_200_OK, None)

Next ==
  \E r \in Requests :
    \/ dispatch(r)
    \/ read_test_route(r)
    \/ raise_http_exception(r)
    \/ raise_app_exception(r)
    \/ raise_unhandled_exception(r)
    \/ post_validation_error(r)
    \/ get_manual_validation_error(r)
    \/ dispatch_return(r)
    \/ dispatch_raise(r)
    \/ ServerErrorMiddleware(r)

Spec == Init /\ [][Next]_vars

\* ================================================================== claims
Responded(r) == pc[r] = "done"
Raised(r) == "exc" \in DOMAIN route_outcome[r]
RaisedCls(r, cls) == Raised(r) /\ route_outcome[r].exc.cls = cls
\* the route raised an exception that no handler of ExceptionMiddleware takes
RaisedUnhandled(r) == Raised(r) /\ LookupHandler(route_outcome[r].exc) = NoHandler
ReceivedId(r) == HeadersGet(request[r].headers, XCorrelationID)
ResponseId(r) == HeadersGet(client_response[r].headers, XCorrelationID)
Body(r) == client_response[r].body
ProblemFields == {"type", "title", "status", "detail", "instance", "correlation_id"}

\* what uuid.UUID(s) and the version check accept: 8-4-4-4-12 lowercase hex
\* digits, version nibble 4, variant nibble 8..b
IsUuid4Str(s) ==
  /\ Len(s) = 36
  /\ \A i \in 1..36 :
       IF i \in {9, 14, 19, 24} THEN s[i] = "-"
       ELSE \E d \in 1..16 : s[i] = HexChars[d]
  /\ s[15] = "4"
  /\ s[20] \in {"8", "9", "a", "b"}

\* C1: whatever the route does (returns, raises HTTPException, AppException,
\* a pydantic ValidationError or any other exception), the response carries
\* an X-Correlation-ID header equal to the id established at entry, and an
\* error response's body field correlation_id equals that id too.
C1_EveryResponseCarriesEstablishedId ==
  \A r \in Requests :
    (Responded(r) /\ ~RaisedCls(r, "RequestValidationError")) =>
      /\ ResponseId(r) = correlation_id[r]
      /\ Raised(r) => Body(r).correlation_id = correlation_id[r]

\* C2: dispatch never terminates by raising; an unhandled exception of the
\* downstream stage becomes a 500 problem-details response of type
\* /errors/internal-server-error with the generic detail and the established
\* id in the header and in the body.
C2_DispatchNeverRaises ==
  \A r \in Requests :
    /\ dispatch_result[r] # "raised"
    /\ (Responded(r) /\ RaisedUnhandled(r)) =>
         /\ client_response[r].status_code = HTTP_500_INTERNAL_SERVER_ERROR
         /\ Body(r).type = TypeInternalServerError
         /\ Body(r).detail = GenericDetail
         /\ Body(r).correlation_id = correlation_id[r]
         /\ ResponseId(r) = correlation_id[r]

\* C3: a request that carries a non-empty X-Correlation-ID header X gets a
\* response whose X-Correlation-ID header is X exactly.
C3_ClientIdEchoed ==
  \A r \in Requests :
    (Responded(r) /\ ~Falsy(ReceivedId(r))) => ResponseId(r) = ReceivedId(r)

\* C4: a request whose X-Correlation-ID header is absent or empty gets a
\* response whose X-Correlation-ID header is present and is the string form
\* of the version-4 UUID generated for it.
C4_MissingIdGenerated ==
  \A r \in Requests :
    (Responded(r) /\ Falsy(ReceivedId(r))) =>
      /\ ResponseId(r) # None
      /\ ResponseId(r) = correlation_id[r]
      /\ IsUuid4Str(ResponseId(r))

\* C5: a generic exception gives status 500 and a body that does not depend
\* on the exception's message: type /errors/internal-server-error, status 500,
\* the fixed detail, and a correlation_id equal to the response's
\* X-Correlation-ID header.
C5_GenericExceptionBody ==
  \A r \in Requests :
    (Responded(r) /\ RaisedUnhandled(r)) =>
      /\ client_response[r].status_code = HTTP_500_INTERNAL_SERVER_ERROR
      /\ Body(r) = [type |-> TypeInternalServerError,
                    title |-> "Internal Server Error",
                    status |-> HTTP_500_INTERNAL_SERVER_ERROR,
                    detail |-> GenericDetail,
                    instance |-> URLStr(request[r].url),
                    correlation_id |-> correlation_id[r]]
      /\ Body(r).correlation_id = ResponseId(r)

\* C6: a route raising HTTPException(S, D) is answered with HTTP status S and
\* a body with status S, a type ending in http/S, title "HTTP Error" and
\* detail D.
C6_HttpExceptionMapping ==
  \A r \in Requests :
    (Responded(r) /\ RaisedCls(r, "HTTPException")) =>
      LET exc == route_outcome[r].exc
      IN /\ client_response[r].status_code = exc.status_code
         /\ Body(r).status = exc.status_code
         /\ EndsWith(Body(r).type, <<"h","t","t","p","/">> \o IntToStr(exc.status_code))
         /\ Body(r).title = "HTTP Error"
         /\ Body(r).detail = exc.detail

C6_Witness ==
  \E r \in Requests :
    /\ Responded(r)
    /\ RaisedCls(r, "HTTPException")
    /\ route_outcome[r].exc.status_code = 404
    /\ client_response[r].status_code = 404

\* C7: a route raising AppException(D[, S]) is answered by the
\* application-specific mapping, not the generic one: HTTP status S (500 when
\* S is not given), body status S, type /errors/application-specific-error,
\* detail D.
C7_AppExceptionMapping ==
  \A r \in Requests : \A raised \in RaisedAppExceptions :
    (Responded(r) /\ Raised(r)
       /\ route_outcome[r].exc = AppException(raised[1], raised[2])) =>
      LET S == IF raised[2] = <<>> THEN 500 ELSE raised[2][1]
      IN /\ client_response[r].status_code = S
         /\ Body(r).status = S
         /\ Body(r).type = TypeApplicationSpecificError
         /\ Body(r).title = "Application Specific Error"
         /\ Body(r).detail = raised[1]
         /\ dispatch_result[r] = "returned"

\* one AppException with its own status and one with the default are answered
C7_Witness ==
  \E r1, r2 \in Requests :
    /\ Responded(r1) /\ Responded(r2)
    /\ Raised(r1) /\ Raised(r2)
    /\ route_outcome[r1].exc = AppException("Custom app error occurred", <<400>>)
    /\ client_response[r1].status_code = 400
    /\ route_outcome[r2].exc = AppException("Out of stock", <<>>)
    /\ client_response[r2].status_code = 500

RaisedValidation(r) ==
  RaisedCls(r, "ValidationError") \/ RaisedCls(r, "RequestValidationError")

C10_PostWithoutPrice ==
  \A r \in Requests :
    (Responded(r) /\ request[r].method = "POST"
       /\ "price" \notin DOMAIN request[r].json) =>
      /\ client_response[r].status_code = HTTP_422_UNPROCESSABLE_ENTITY
      /\ "detail" \in DOMAIN Body(r)
      /\ Len(Body(r).detail) > 0
      /\ \E i \in 1..Len(Body(r).detail) :
           /\ Body(r).detail[i].type = "missing"
           /\ Body(r).detail[i].loc = <<"body", "price">>
      /\ ResponseId(r) # None

C10_Witness ==
  \E r \in Requests :
    /\ Responded(r)
    /\ request[r].method = "POST"
    /\ request[r].json = [name |-> "str"]
    /\ client_response[r].status_code = 422
    /\ ResponseId(r) = correlation_id[r]

\* ================================================== the handlers on their own
\* The four handlers of ainative.app.exceptions called as plain functions on
\* a request, as an application that registers them without
\* ObservabilityMiddleware does: request.state then holds a correlation_id
\* only if somebody else put it there.
RequestStateChoices(r) == { EmptyMap, "correlation_id" :> ClientId(r) }
HandledPaths == { PathHttpException, PathUnhandledException }

InitHandlers ==
  /\ pc = [r \in Requests |-> "idle"]
  /\ request \in [Requests ->
       { [method |-> "GET", url |-> URL(path), headers |-> EmptyMap, json |-> EmptyMap] :
           path \in HandledPaths }]
  /\ request_state \in [Requests -> UNION { RequestStateChoices(r) : r \in Requests }]
  /\ \A r \in Requests : request_state[r] \in RequestStateChoices(r)
  /\ correlation_id = [r \in Requests |-> None]
  /\ call_next_result = [r \in Requests |-> EmptyMap]
  /\ dispatch_result = [r \in Requests |-> "pending"]
  /\ client_response = [r \in Requests |-> EmptyMap]
  /\ server_raised = [r \in Requests |-> EmptyMap]
  /\ route_outcome = [r \in Requests |-> EmptyMap]
  /\ app_state = EmptyMap
  /\ uuid_calls = 0
  /\ log = [r \in Requests |-> <<>>]

\* await handler(request, exc): the handler's response is the request's answer
Handle(r, handler, exc) ==
  /\ LET result == CallHandler(handler, request_state[r], app_state, request[r].url, exc)
     IN /\ client_response' = [client_response EXCEPT ![r] = result.response]
        /\ app_state' = result.app_state
        /\ log' = [log EXCEPT ![r] = log[r] \o result.logged]
  /\ route_outcome' = [route_outcome EXCEPT ![r] = [exc |-> exc, handler |-> handler]]
  /\ pc' = [pc EXCEPT ![r] = "done"]
  /\ UNCHANGED <<request, request_state, correlation_id, call_next_result,
                 dispatch_result, server_raised, uuid_calls>>

handle_generic_exception(r) ==
  /\ pc[r] = "idle"
  /\ \E message \in RaisedMessages :
       Handle(r, "generic_exception_handler", OtherException("ValueError", message))

handle_http_exception(r) ==
  /\ pc[r] = "idle"
  /\ \E raised \in RaisedHTTPExceptions :
       Handle(r, "http_exception_handler", HTTPException(raised[1], raised[2]))

handle_app_exception(r) ==
  /\ pc[r] = "idle"
  /\ \E raised \in RaisedAppExceptions :
       Handle(r, "app_exception_handler", AppException(raised[1], raised[2]))

handle_validation_exception(r) ==
  /\ pc[r] = "idle"
  /\ \E data \in ManualItemInputs :
       Handle(r, "validation_exception_handler", ValidationError(ItemErrors(data, <<>>)))

NextHandlers ==
  \E r \in Requests :
    \/ handle_generic_exception(r)
    \/ handle_http_exception(r)
    \/ handle_app_exception(r)
    \/ handle_validation_exception(r)

SpecHandlers == InitHandlers /\ [][NextHandlers]_vars

\* C11: when a handler runs for a request whose request.state holds no
\* correlation_id, the body's correlation_id is the sentinel "not-set",
\* whichever of the four handlers (generic, HTTP, application, validation)
\* it is.
C11_SentinelNotSet ==
  \A r \in Requests :
    (Responded(r) /\ ~HasAttr(request_state[r], "correlation_id")) =>
      Body(r).correlation_id = NotSet

\* ============================================================== concurrency
\* dispatch has run for request r: its correlation id is established
Established(r) == pc[r] # "idle"
\* uuid.uuid4() produced the id of request r
Generated(r) == Established(r) /\ Falsy(ReceivedId(r))

\* C12: simultaneous requests, with distinct or absent X-Correlation-ID
\* headers, each receive their own correlation id in their own response:
\* under every interleaving the response's X-Correlation-ID is the id
\* established for that request, never the id established for another one,
\* and the ids generated for requests without a header do not collide.
C12_OwnIdInOwnResponse ==
  \A r1 \in Requests :
    /\ Responded(r1) => ResponseId(r1) = correlation_id[r1]
    /\ \A r2 \in Requests \ {r1} :
         /\ (Responded(r1) /\ Established(r2)) => ResponseId(r1) # correlation_id[r2]
         /\ (Generated(r1) /\ Generated(r2)) => correlation_id[r1] # correlation_id[r2]

\* what the route of request r returned, when it returned
Returned(r) == "returned" \in DOMAIN route_outcome[r]
\* the route of request r read app.state.logger_context into its result
ReadLoggerContext(r) ==
  /\ Returned(r)
  /\ "logger_context" \in DOMAIN route_outcome[r].returned

\* C13: nothing written while handling one request is observable while
\* handling another: under any interleaving, the correlation id a route
\* reads from request.state and from app.state.logger_context during
\* request A is A's own id, never that of a concurrent request B.
C13_RouteReadsOwnId ==
  \A r \in Requests :
    ReadLoggerContext(r) =>
      /\ route_outcome[r].returned.correlation_id_in_state = correlation_id[r]
      /\ "correlation_id" \in DOMAIN route_outcome[r].returned.logger_context
      /\ route_outcome[r].returned.logger_context["correlation_id"] = correlation_id[r]

\* ============================================================ trace context
IsHex(s) == \A i \in 1..Len(s) : \E d \in 1..16 : s[i] = HexChars[d]
\* traceparent.split('-') for a value of the four-segment layout
TraceparentParts(s) ==
  <<SubSeq(s, 1, 2), SubSeq(s, 4, 35), SubSeq(s, 37, 52), SubSeq(s, 54, 55)>>
\* four dash-separated lowercase-hex segments of lengths 2, 32, 16 and 2
IsTraceparent(s) ==
  /\ Len(s) = 55
  /\ s[3] = "-" /\ s[36] = "-" /\ s[53] = "-"
  /\ \A i \in 1..4 : IsHex(TraceparentParts(s)[i])
ReceivedTraceparent(r) == HeadersGet(request[r].headers, TraceparentName)
ResponseTraceparent(r) == HeadersGet(client_response[r].headers, TraceparentName)

\* C14: every response, success or failure, carries a traceparent header;
\* for a request without an inbound traceparent it is a synthesized one:
\* version 00, a 32-hex-digit trace id, a 16-hex-digit span id, flags 01.
C14_TraceparentOnEveryResponse ==
  \A r \in Requests :
    Responded(r) =>
      /\ ResponseTraceparent(r) # None
      /\ IsTraceparent(ResponseTraceparent(r))
      /\ ReceivedTraceparent(r) = None =>
           /\ TraceparentParts(ResponseTraceparent(r))[1] = <<"0","0">>
           /\ TraceparentParts(ResponseTraceparent(r))[4] = <<"0","1">>

\* C15: for a request with an inbound traceparent of trace id T and span id
\* P, the response traceparent starts with 00-T- and its span-id segment
\* differs from P.
C15_TraceIdPreserved ==
  \A r \in Requests :
    (Responded(r) /\ ReceivedTraceparent(r) # None) =>
      /\ ResponseTraceparent(r) # None
      /\ IsTraceparent(ResponseTraceparent(r))
      /\ TraceparentParts(ResponseTraceparent(r))[1] = <<"0","0">>
      /\ TraceparentParts(ResponseTraceparent(r))[2] =
           TraceparentParts(ReceivedTraceparent(r))[2]
      /\ TraceparentParts(ResponseTraceparent(r))[3] #
           TraceparentParts(ReceivedTraceparent(r))[3]

\* ============================================== request state and the header
\* C16: the correlation id is stored in request.state before the downstream
\* stage is invoked, so the value a route or an exception handler reads from
\* request.state.correlation_id is the value the middleware later writes to
\* the X-Correlation-ID response header.
C16_StateHoldsIdBeforeDownstream ==
  \A r \in Requests :
    /\ Established(r) =>
         /\ HasAttr(request_state[r], "correlation_id")
         /\ request_state[r]["correlation_id"] = correlation_id[r]
    /\ ReadLoggerContext(r) =>
         route_outcome[r].returned.correlation_id_in_state = correlation_id[r]
    /\ (Responded(r) /\ Raised(r) /\ "correlation_id" \in DOMAIN Body(r)) =>
         Body(r).correlation_id = correlation_id[r]
    /\ (Responded(r) /\ dispatch_result[r] = "returned") =>
         ResponseId(r) = correlation_id[r]

\* a route and an exception handler have read the id from request.state and
\* the middleware has written the same value to the header
C16_Witness ==
  \E r1, r2 \in Requests :
    /\ Responded(r1) /\ ReadLoggerContext(r1)
    /\ ResponseId(r1) = route_outcome[r1].returned.correlation_id_in_state
    /\ Responded(r2) /\ RaisedCls(r2, "HTTPException")
    /\ Body(r2).correlation_id = ResponseId(r2)
    /\ ResponseId(r2) = request_state[r2]["correlation_id"]

\* =================================================== problem-details fields
\* the response of request r is a problem-details body
ProblemDetails(r) == Responded(r) /\ Raised(r) /\ "instance" \in DOMAIN Body(r)

\* C17: in every problem-details body, instance is the path of the failed
\* request: the path component only, without scheme, host or query string.
C17_InstanceIsRequestPath ==
  \A r \in Requests :
    ProblemDetails(r) => Body(r).instance = request[r].url.path

\* ================================================ logging of the handlers
\* the module logger got a record of that level with that correlation id
\* while request r was handled
Logged(r, level, cid) ==
  \E i \in 1..Len(log[r]) :
    /\ log[r][i].level = level
    /\ log[r][i].correlation_id = cid

\* C18: each of the four handlers emits a log record for every exception it
\* handles, before its response is returned: at level error for generic and
\* application exceptions, warning for HTTP exceptions, info for validation
\* errors, each with the request's correlation id.
C18_HandlersLog ==
  \A r \in Requests :
    (Responded(r) /\ Raised(r)) =>
      /\ RaisedUnhandled(r) => Logged(r, "ERROR", correlation_id[r])
      /\ RaisedCls(r, "AppException") => Logged(r, "ERROR", correlation_id[r])
      /\ RaisedCls(r, "HTTPException") => Logged(r, "WARNING", correlation_id[r])
      /\ RaisedCls(r, "ValidationError") => Logged(r, "INFO", correlation_id[r])

\* ====================================================== the success path
CorrelationHeaders == { XCorrelationID, TraceparentName }

\* C19: when the downstream stage returned a response, the middleware
\* returns it unmodified apart from the added correlation headers: status
\* code, body and every other header are those of the downstream response.
C19_ResponseUnmodified ==
  [][\A r \in Requests :
       (pc[r] = "resume" /\ pc'[r] = "done") =>
         LET response == call_next_result[r].response
             returned == client_response'[r]
         IN /\ returned.status_code = response.status_code
            /\ returned.body = response.body
            /\ DOMAIN returned.headers \ CorrelationHeaders =
                 DOMAIN response.headers \ CorrelationHeaders
            /\ \A name \in DOMAIN response.headers \ CorrelationHeaders :
                 returned.headers[name] = response.headers[name]]_vars

\* a route's result has passed the middleware: status, body and content
\* type are the route's, the correlation header is added
C19_Witness ==
  \E r \in Requests :
    /\ Responded(r) /\ dispatch_result[r] = "returned"
    /\ ReadLoggerContext(r)
    /\ client_response[r].status_code = HTTP_200_OK
    /\ Body(r) = route_outcome[r].returned
    /\ client_response[r].headers["content-type"] = ApplicationJson
    /\ ResponseId(r) = correlation_id[r]

\* ========================================================= the agent routes
\* The routes get_agent, update_agent and delete_agent of
\* infrastructure/api/route_handler.py on the application that
\* tests/unit/app/infrastructure/api/test_route_handler.py builds: the
\* router and a handler for HTTPException, no ObservabilityMiddleware.  The
\* agent service is patched by the tests, so what a service call does is an
\* input.  A str built by an f-string is the sequence of its fragments.
HTTP_404_NOT_FOUND == 404

HTTP_REASON_PHRASES ==
  (404 :> "Not Found") @@ (422 :> "Unprocessable Entity") @@
  (500 :> "Internal Server Error")

AgentIds == { "agent123", "nonexistent" }
PathAgents == <<"/","a","g","e","n","t","s">>
AgentPath(agent_id) == PathAgents \o <<"/", agent_id>>

\* f"Agent with ID {agent_id} not found"
AgentNotFound(agent_id) == <<"Agent with ID ", agent_id, " not found">>

\* the JSON body of a PUT, parsed into AgentRequest (valid_agent_request)
AgentRequest ==
  [name |-> "test_agent", description |-> "Test agent for unit tests",
   agent_type |-> "llm",
   config |-> [model |-> "mistral-7b-instruct", temperature |-> "0.7",
               max_tokens |-> "1024"]]

\* what a call of the (patched) agent service does: return a dict, return
\* an empty one, raise an HTTPException, raise anything else
ServiceOutcomes(agent_id) ==
  { [return_value |-> [id |-> agent_id, name |-> "test_agent"]],
    [return_value |-> EmptyMap],
    [side_effect |-> HTTPException(HTTP_404_NOT_FOUND, AgentNotFound(agent_id))],
    [side_effect |-> HTTPException(403, <<"Forbidden">>)],
    [side_effect |-> OtherException("RuntimeError", "database down")] }

ServiceRaises(outcome) == "side_effect" \in DOMAIN outcome

\* str(e): starlette's HTTPException gives "<status_code>: <detail>", any
\* other exception its message
StrOfException(exc) ==
  IF exc.cls = "HTTPException"
  THEN IntToStr(exc.status_code) \o <<": ">> \o exc.detail
  ELSE <<exc.message>>

\* "except Exception as e: logger.error(...); raise HTTPException(500, ...)"
WrapIn500(prefix, exc) ==
  HTTPException(HTTP_500_INTERNAL_SERVER_ERROR, <<prefix>> \o StrOfException(exc))

\* @app.exception_handler(HTTPException) of the application
agents_http_exception_handler(url, exc) ==
  JSONResponse(exc.status_code,
    [type |-> <<"https://ainative.dev/errors/">> \o IntToStr(exc.status_code),
     title |-> GetAttr(HTTP_REASON_PHRASES, exc.status_code, "Error"),
     status |-> exc.status_code,
     detail |-> exc.detail,
     instance |-> url.path,
     validation_errors |-> None])

\* datetime.now(), the reading of the clock
Now == "datetime.now()"

\* mutant: without "except HTTPException: raise", as in create_agent
Reraised_wrapping_all(exc, prefix) == WrapIn500(prefix, exc)

\* The except clauses that close get_agent, update_agent and delete_agent:
\* "except HTTPException: raise", then "except Exception as e" with
\* logger.error and a new HTTPException of status 500.
Reraised(exc, prefix) ==
  IF exc.cls = "HTTPException" THEN exc ELSE WrapIn500(prefix, exc)

ErrorLogged(exc, message) ==
  IF exc.cls = "HTTPException" THEN <<>>
  ELSE <<[level |-> "ERROR", message |-> message \o StrOfException(exc)]>>

InfoLogged(message) == <<[level |-> "INFO", message |-> message]>>

\* the router matches method and path /agents/{agent_id}
AgentRouted(r, method, agent_id, json) ==
  /\ pc[r] = "idle"
  /\ request' = [request EXCEPT ![r] =
       [method |-> method, url |-> URL(AgentPath(agent_id)), headers |-> EmptyMap,
        json |-> json]]
  /\ pc' = [pc EXCEPT ![r] = "resume"]
  /\ UNCHANGED <<request_state, correlation_id, dispatch_result, client_response,
                 server_raised, app_state, uuid_calls>>

\* mutant: the closing "except Exception" takes every exception of the route
AgentRaise_caught_by_catch_all(r, outcome, exc, prefix, records) ==
  /\ call_next_result' =
       [call_next_result EXCEPT ![r] = [exc |-> WrapIn500(prefix, exc)]]
  /\ route_outcome' =
       [route_outcome EXCEPT ![r] = [service |-> outcome, exc |-> WrapIn500(prefix, exc)]]
  /\ log' = [log EXCEPT ![r] = log[r] \o records]

\* the route ends by raising exc, having logged records
AgentRaise(r, outcome, exc, prefix, records) ==
  /\ call_next_result' =
       [call_next_result EXCEPT ![r] = [exc |-> Reraised(exc, prefix)]]
  /\ route_outcome' =
       [route_outcome EXCEPT ![r] = [service |-> outcome, exc |-> Reraised(exc, prefix)]]
  /\ log' = [log EXCEPT ![r] = log[r] \o records]

\* the route ends by returning content, serialised with the route's status
AgentReturn(r, outcome, content, records) ==
  /\ call_next_result' =
       [call_next_result EXCEPT ![r] = [response |-> JSONResponse(HTTP_200_OK, content)]]
  /\ route_outcome' =
       [route_outcome EXCEPT ![r] = [service |-> outcome, returned |-> content]]
  /\ log' = [log EXCEPT ![r] = log[r] \o records]

get_agent(r) ==
  \E agent_id \in AgentIds : \E outcome \in ServiceOutcomes(agent_id) :
    /\ AgentRouted(r, "GET", agent_id, EmptyMap)
    /\ LET prefix == "Failed to get agent: "
           info == InfoLogged(<<"Getting agent with ID: ", agent_id>>)
           error(exc) ==
             ErrorLogged(exc, <<"Error getting agent ", agent_id, ": ">>)
       IN IF ServiceRaises(outcome)
          THEN AgentRaise(r, outcome, outcome.side_effect, prefix,
                          info \o error(outcome.side_effect))
          ELSE LET agent_data == outcome.return_value
               IN IF DOMAIN agent_data = {}
                  THEN AgentRaise(r, outcome,
                         HTTPException(HTTP_404_NOT_FOUND, AgentNotFound(agent_id)),
                         prefix, info)
                  ELSE AgentReturn(r, outcome,
                         [id |-> GetAttr(agent_data, "id", agent_id),
                          name |-> GetAttr(agent_data, "name", "default_agent"),
                          description |-> GetAttr(agent_data, "description", ""),
                          agent_type |-> GetAttr(agent_data, "agent_type", "llm"),
                          config |->
                            [model |-> GetAttr(agent_data, "model", "default_model"),
                             temperature |-> GetAttr(agent_data, "temperature", "0.7"),
                             max_tokens |-> GetAttr(agent_data, "max_tokens", "1024")],
                          status |-> GetAttr(agent_data, "status", "active"),
                          created_at |-> GetAttr(agent_data, "created_at", Now),
                          updated_at |-> GetAttr(agent_data, "updated_at", Now)],
                         info)

\* agent: AgentRequest = None, so a PUT without a body reaches the route
update_agent(r) ==
  \E agent_id \in AgentIds : \E outcome \in ServiceOutcomes(agent_id) :
  \E has_body \in BOOLEAN :
    /\ AgentRouted(r, "PUT", agent_id, IF has_body THEN AgentRequest ELSE EmptyMap)
    /\ LET prefix == "Failed to update agent: "
           info == InfoLogged(<<"Updating agent with ID: ", agent_id>>)
           error(exc) ==
             ErrorLogged(exc, <<"Error updating agent ", agent_id, ": ">>)
           no_name ==
             OtherException("AttributeError",
                            "'NoneType' object has no attribute 'name'")
       IN IF ServiceRaises(outcome)
          THEN AgentRaise(r, outcome, outcome.side_effect, prefix,
                          info \o error(outcome.side_effect))
          ELSE IF DOMAIN outcome.return_value = {}
          THEN AgentRaise(r, outcome,
                 HTTPException(HTTP_404_NOT_FOUND, AgentNotFound(agent_id)),
                 prefix, info)
          ELSE IF ~has_body
          THEN AgentRaise(r, outcome, no_name, prefix, info \o error(no_name))
          ELSE AgentReturn(r, outcome,
                 [id |-> agent_id,
                  name |-> AgentRequest.name,
                  description |-> AgentRequest.description,
                  agent_type |-> AgentRequest.agent_type,
                  config |-> AgentRequest.config,
                  status |-> "active",
                  created_at |-> Now,
                  updated_at |-> Now],
                 info)

delete_agent(r) ==
  \E agent_id \in AgentIds : \E outcome \in ServiceOutcomes(agent_id) :
    /\ AgentRouted(r, "DELETE", agent_id, EmptyMap)
    /\ LET prefix == "Failed to delete agent: "
           info == InfoLogged(<<"Deleting agent with ID: ", agent_id>>)
           error(exc) ==
             ErrorLogged(exc, <<"Error deleting agent ", agent_id, ": ">>)
       IN IF ServiceRaises(outcome)
          THEN AgentRaise(r, outcome, outcome.side_effect, prefix,
                          info \o error(outcome.side_effect))
          ELSE AgentReturn(r, outcome,
                 [status |-> "success",
                  message |-> <<"Agent ", agent_id, " deleted">>],
                 info)

\* the route returned: its response is sent
agents_respond(r) ==
  /\ pc[r] = "resume"
  /\ "service" \in DOMAIN route_outcome[r]
  /\ "response" \in DOMAIN call_next_result[r]
  /\ client_response' = [client_response EXCEPT ![r] = call_next_result[r].response]
  /\ call_next_result' = [call_next_result EXCEPT ![r] = EmptyMap]
  /\ pc' = [pc EXCEPT ![r] = "done"]
  /\ UNCHANGED <<request, request_state, correlation_id, dispatch_result,
                 server_raised, route_outcome, app_state, uuid_calls, log>>

\* the route raised: ExceptionMiddleware calls the HTTPException handler
agents_http_exception(r) ==
  /\ pc[r] = "resume"
  /\ "service" \in DOMAIN route_outcome[r]
  /\ "exc" \in DOMAIN call_next_result[r]
  /\ client_response' = [client_response EXCEPT ![r] =
       agents_http_exception_handler(request[r].url, call_next_result[r].exc)]
  /\ call_next_result' = [call_next_result EXCEPT ![r] = EmptyMap]
  /\ pc' = [pc EXCEPT ![r] = "done"]
  /\ UNCHANGED <<request, request_state, correlation_id, dispatch_result,
                 server_raised, route_outcome, app_state, uuid_calls, log>>

\* ---------------------------------------- POST /agents and its validation
HTTP_201_CREATED == 201

\* AgentRequest's required fields, in declaration order (description has a
\* default); config is an AgentConfig, whose required field is model
AgentRequestRequired == <<"name", "agent_type", "config">>

\* the JSON bodies posted to /agents: valid_agent_request, the test's
\* invalid_request {"name": "test_agent"}, and one that lacks only config
CreateBodies ==
  { AgentRequest,
    [name |-> "test_agent"],
    [name |-> "test_agent", agent_type |-> "llm"] }

\* the errors pydantic reports for a body against AgentRequest: one
\* "missing" entry per absent required field, in field order
RECURSIVE AgentRequestErrorsFrom(_, _)
AgentRequestErrorsFrom(i, data) ==
  IF i > Len(AgentRequestRequired) THEN <<>>
  ELSE (IF AgentRequestRequired[i] \in DOMAIN data THEN <<>>
        ELSE <<[type |-> "missing", loc |-> <<"body", AgentRequestRequired[i]>>,
                msg |-> "Field required"]>>)
       \o AgentRequestErrorsFrom(i + 1, data)

AgentRequestErrors(data) == AgentRequestErrorsFrom(1, data)

\* mutant: validation_errors is not passed to ErrorResponse
agents_validation_exception_handler_without_errors(url, exc) ==
  JSONResponse(HTTP_422_UNPROCESSABLE_ENTITY,
    [type |-> <<"https://ainative.dev/errors/validation">>,
     title |-> "Validation Error",
     status |-> HTTP_422_UNPROCESSABLE_ENTITY,
     detail |-> <<"One or more validation errors occurred.">>,
     instance |-> url.path,
     validation_errors |-> None])

\* @app.exception_handler(RequestValidationError) of the application
agents_validation_exception_handler(url, exc) ==
  JSONResponse(HTTP_422_UNPROCESSABLE_ENTITY,
    [type |-> <<"https://ainative.dev/errors/validation">>,
     title |-> "Validation Error",
     status |-> HTTP_422_UNPROCESSABLE_ENTITY,
     detail |-> <<"One or more validation errors occurred.">>,
     instance |-> url.path,
     validation_errors |-> exc.errors])

\* the router matches method and path /agents
AgentsRouted(r, method, json) ==
  /\ pc[r] = "idle"
  /\ request' = [request EXCEPT ![r] =
       [method |-> method, url |-> URL(PathAgents), headers |-> EmptyMap,
        json |-> json]]
  /\ pc' = [pc EXCEPT ![r] = "resume"]
  /\ UNCHANGED <<request_state, correlation_id, dispatch_result, client_response,
                 server_raised, app_state, uuid_calls>>

\* FastAPI found the body invalid: the route does not run, the service is
\* not called
AgentInvalid(r, errors) ==
  /\ call_next_result' =
       [call_next_result EXCEPT ![r] = [exc |-> RequestValidationError(errors)]]
  /\ route_outcome' =
       [route_outcome EXCEPT ![r] = [invalid |-> RequestValidationError(errors)]]
  /\ UNCHANGED log

\* mutant: "except HTTPException: raise" comes first, as in get_agent
AgentRaiseWrapped_passing_http(r, outcome, exc, prefix, records) ==
  /\ call_next_result' =
       [call_next_result EXCEPT ![r] = [exc |-> Reraised(exc, prefix)]]
  /\ route_outcome' =
       [route_outcome EXCEPT ![r] = [service |-> outcome, exc |-> Reraised(exc, prefix)]]
  /\ log' = [log EXCEPT ![r] = log[r] \o records]

\* create_agent's only except clause: "except Exception as e", logger.error
\* and a new HTTPException of status 500, whatever was raised
AgentRaiseWrapped(r, outcome, exc, prefix, records) ==
  /\ call_next_result' =
       [call_next_result EXCEPT ![r] = [exc |-> WrapIn500(prefix, exc)]]
  /\ route_outcome' =
       [route_outcome EXCEPT ![r] = [service |-> outcome, exc |-> WrapIn500(prefix, exc)]]
  /\ log' = [log EXCEPT ![r] = log[r] \o records]

\* the route returns content, serialised with status_code of its decorator
AgentReturnWith(r, outcome, status_code, content, records) ==
  /\ call_next_result' =
       [call_next_result EXCEPT ![r] = [response |-> JSONResponse(status_code, content)]]
  /\ route_outcome' =
       [route_outcome EXCEPT ![r] = [service |-> outcome, returned |-> content]]
  /\ log' = [log EXCEPT ![r] = log[r] \o records]

\* what agent_service.create_agent does: as for the other calls, and an
\* HTTPException of status 409
CreateOutcomes ==
  ServiceOutcomes("agent123") \cup
  { [side_effect |-> HTTPException(409, <<"Agent already exists">>)] }

create_agent(r) ==
  \E json \in CreateBodies :
    /\ AgentsRouted(r, "POST", json)
    /\ IF AgentRequestErrors(json) # <<>>
       THEN AgentInvalid(r, AgentRequestErrors(json))
       ELSE \E outcome \in CreateOutcomes :
              LET agent == json
                  prefix == "Failed to create agent: "
                  info == InfoLogged(<<"Creating agent: ", agent.name>>)
              IN IF ServiceRaises(outcome)
                 THEN AgentRaiseWrapped(r, outcome, outcome.side_effect, prefix,
                        info \o <<[level |-> "ERROR",
                                   message |-> <<"Error creating agent: ">> \o
                                               StrOfException(outcome.side_effect)]>>)
                 ELSE AgentReturnWith(r, outcome, HTTP_201_CREATED,
                        [id |-> GetAttr(outcome.return_value, "id", "agent123"),
                         name |-> agent.name,
                         description |-> agent.description,
                         agent_type |-> agent.agent_type,
                         config |-> agent.config,
                         status |-> "active",
                         created_at |-> Now,
                         updated_at |-> Now],
                        info)

\* what agent_service.list_agents does: return a list of dicts, return an
\* empty list, raise an HTTPException, raise anything else
ListOutcomes ==
  { [return_value |-> <<[id |-> "agent123", name |-> "test_agent"]>>],
    [return_value |-> <<>>],
    [side_effect |-> HTTPException(HTTP_404_NOT_FOUND, <<"No agents">>)],
    [side_effect |-> OtherException("RuntimeError", "database down")] }

\* GET /agents without query parameters: type_filter and status_filter are
\* None, limit is 100, offset is 0
list_agents(r) ==
  \E outcome \in ListOutcomes :
    /\ AgentsRouted(r, "GET", EmptyMap)
    /\ LET prefix == "Failed to list agents: "
           info == InfoLogged(<<"Listing agents (filters: type=", "None", ", status=",
                                "None", ")">>)
       IN IF ServiceRaises(outcome)
          THEN AgentRaiseWrapped(r, outcome, outcome.side_effect, prefix,
                 info \o <<[level |-> "ERROR",
                            message |-> <<"Error listing agents: ">> \o
                                        StrOfException(outcome.side_effect)]>>)
          ELSE LET agents_data == outcome.return_value
               IN AgentReturnWith(r, outcome, HTTP_200_OK,
                    [k \in DOMAIN agents_data |->
                       [id |-> GetAttr(agents_data[k], "id", "agent123"),
                        name |-> GetAttr(agents_data[k], "name", "default_agent"),
                        description |-> GetAttr(agents_data[k], "description", ""),
                        agent_type |-> GetAttr(agents_data[k], "agent_type", "llm"),
                        config |->
                          [model |-> GetAttr(agents_data[k], "model", "default_model"),
                           temperature |-> GetAttr(agents_data[k], "temperature", "0.7"),
                           max_tokens |-> GetAttr(agents_data[k], "max_tokens", "1024")],
                        status |-> GetAttr(agents_data[k], "status", "active"),
                        created_at |-> GetAttr(agents_data[k], "created_at", Now),
                        updated_at |-> GetAttr(agents_data[k], "updated_at", Now)]],
                    info)

\* the body was invalid: ExceptionMiddleware calls the handler registered
\* for RequestValidationError
agents_validation_error(r) ==
  /\ pc[r] = "resume"
  /\ "invalid" \in DOMAIN route_outcome[r]
  /\ "exc" \in DOMAIN call_next_result[r]
  /\ client_response' = [client_response EXCEPT ![r] =
       agents_validation_exception_handler(request[r].url, call_next_result[r].exc)]
  /\ call_next_result' = [call_next_result EXCEPT ![r] = EmptyMap]
  /\ pc' = [pc EXCEPT ![r] = "done"]
  /\ UNCHANGED <<request, request_state, correlation_id, dispatch_result,
                 server_raised, route_outcome, app_state, uuid_calls, log>>

\* the routes of the path /agents/{agent_id}
NextAgents ==
  \E r \in Requests :
    \/ get_agent(r)
    \/ update_agent(r)
    \/ delete_agent(r)
    \/ agents_respond(r)
    \/ agents_http_exception(r)

SpecAgents == Init /\ [][NextAgents]_vars

\* the routes of the path /agents
NextAgentsCollection ==
  \E r \in Requests :
    \/ create_agent(r)
    \/ list_agents(r)
    \/ agents_respond(r)
    \/ agents_http_exception(r)
    \/ agents_validation_error(r)

SpecAgentsCollection == Init /\ [][NextAgentsCollection]_vars

\* the agent service raised an HTTPException while request r was handled
ServiceRaisedHTTPException(r) ==
  /\ "service" \in DOMAIN route_outcome[r]
  /\ ServiceRaises(route_outcome[r].service)
  /\ route_outcome[r].service.side_effect.cls = "HTTPException"

\* request r went to a route of path /agents/{agent_id}: get_agent,
\* update_agent or delete_agent
AgentIdRoute(r) == request[r].url.path # PathAgents

\* sub in s
Contains(s, sub) ==
  \E i \in 0..(Len(s) - Len(sub)) : SubSeq(s, i + 1, i + Len(sub)) = sub

\* C20: in get_agent, update_agent and delete_agent an HTTPException raised
\* by the agent service passes through with its own status code and detail
\* and is not wrapped into a 500; the client receives a problem-details body
\* with that status whose detail contains the original message.
C20_ServiceHTTPExceptionPassesThrough ==
  \A r \in Requests :
    (Responded(r) /\ AgentIdRoute(r) /\ ServiceRaisedHTTPException(r)) =>
      LET exc == route_outcome[r].service.side_effect
      IN /\ route_outcome[r].exc = exc
         /\ client_response[r].status_code = exc.status_code
         /\ client_response[r].status_code # HTTP_500_INTERNAL_SERVER_ERROR
         /\ {"type", "title", "status", "detail"} \subseteq DOMAIN Body(r)
         /\ Body(r).status = exc.status_code
         /\ Contains(Body(r).detail, exc.detail)

\* a 404 of the service has passed through get_agent and a 403 through
\* delete_agent
C20_Witness ==
  \E r1, r2 \in Requests :
    /\ Responded(r1) /\ ServiceRaisedHTTPException(r1)
    /\ request[r1].method = "GET"
    /\ client_response[r1].status_code = HTTP_404_NOT_FOUND
    /\ Body(r1).title = "Not Found"
    /\ Body(r1).detail = AgentNotFound("nonexistent")
    /\ Responded(r2) /\ ServiceRaisedHTTPException(r2)
    /\ request[r2].method = "DELETE"
    /\ client_response[r2].status_code = 403

\* the body of request r failed schema validation
BodyInvalid(r) == "invalid" \in DOMAIN route_outcome[r]

\* C21: a request to the agents API whose body fails schema validation never
\* reaches the agent service and is answered with status 422 and a
\* problem-details body with type, title, status 422, detail, instance and a
\* validation_errors list holding the validator's errors.
C21_InvalidBodyAnswered422 ==
  \A r \in Requests :
    /\ (Established(r) /\ request[r].method = "POST"
          /\ AgentRequestErrors(request[r].json) # <<>>) =>
         /\ BodyInvalid(r)
         /\ "service" \notin DOMAIN route_outcome[r]
    /\ (Responded(r) /\ BodyInvalid(r)) =>
         /\ client_response[r].status_code = HTTP_422_UNPROCESSABLE_ENTITY
         /\ {"type", "title", "status", "detail", "instance", "validation_errors"}
              \subseteq DOMAIN Body(r)
         /\ Body(r).status = HTTP_422_UNPROCESSABLE_ENTITY
         /\ Body(r).instance = request[r].url.path
         /\ Body(r).validation_errors = AgentRequestErrors(request[r].json)
         /\ Len(Body(r).validation_errors) > 0

\* POST /agents with {"name": "test_agent"} has been answered: agent_type and
\* config are reported missing
C21_Witness ==
  \E r \in Requests :
    /\ Responded(r) /\ BodyInvalid(r)
    /\ DOMAIN request[r].json = {"name"}
    /\ client_response[r].status_code = 422
    /\ Len(Body(r).validation_errors) = 2
    /\ Body(r).validation_errors[1].loc = <<"body", "agent_type">>

\* =========================================================================
\* monitoring/grafana.py: setup_datasources and the two client calls it makes
\* =========================================================================
MaxDatasources == 3

mock_prometheus_config ==
  [name |-> "Prometheus", type |-> "prometheus", url |-> "http://prometheus:9090",
   access |-> "proxy", isDefault |-> TRUE]

mock_loki_config ==
  [name |-> "Loki", type |-> "loki", url |-> "http://loki:3100", access |-> "proxy"]

\* the lists of data source configurations setup_datasources is called with
DatasourceLists ==
  UNION { [1..n -> {mock_prometheus_config, mock_loki_config}] : n \in 0..MaxDatasources }

\* response.raise_for_status() on an error status
HTTPError(url) == [type |-> "HTTPError", url |-> url]

DatasourcesUrl == <<"/api/datasources">>

HealthUrl(datasource_id) == <<"/api/datasources/", datasource_id, "/health">>

\* what POST /api/datasources can bring back: a body with the id Grafana gave
\* the new data source, a body without one, or an error status
CreateResponses(datasource, created) ==
  { [json |-> [id |-> Len(created) + 1, name |-> datasource.name]],
    [json |-> [message |-> "Datasource added", name |-> datasource.name]],
    [error |-> HTTPError(DatasourcesUrl)] }

\* no request is in the pipeline: the state of the HTTP application at rest
http_pipeline == <<pc, request, request_state, correlation_id, call_next_result,
                   dispatch_result, client_response, server_raised, route_outcome,
                   uuid_calls, log>>

NoRequests ==
  /\ pc = [r \in Requests |-> "idle"]
  /\ request = [r \in Requests |-> EmptyMap]
  /\ request_state = [r \in Requests |-> EmptyMap]
  /\ correlation_id = [r \in Requests |-> None]
  /\ call_next_result = [r \in Requests |-> EmptyMap]
  /\ dispatch_result = [r \in Requests |-> "pending"]
  /\ client_response = [r \in Requests |-> EmptyMap]
  /\ server_raised = [r \in Requests |-> EmptyMap]
  /\ route_outcome = [r \in Requests |-> EmptyMap]
  /\ uuid_calls = 0
  /\ log = [r \in Requests |-> <<>>]

\* The process that runs setup_datasources has no FastAPI application: its
\* state, the call's and that of the Grafana server it talks to, is kept
\* where the state of the process is, in app_state.
grafana == app_state

\* setup_datasources(client, datasources) has been entered: results = []
InitGrafana ==
  /\ NoRequests
  /\ app_state \in
       { [datasources |-> datasources,
          at |-> "for",           \* the statement the call is at
          results |-> <<>>,       \* the local list results
          calls |-> <<>>,         \* the client calls made, in order, and whether they raised
          created |-> <<>>,       \* the data sources Grafana holds
          outcome |-> [kind |-> "running"]] :
           datasources \in DatasourceLists }

\* the loop variable: the datasource of the iteration that comes next
Datasource == grafana.datasources[Len(grafana.results) + 1]

\* mutant: the connection test is skipped whatever the result holds
create_datasource_untested ==
  /\ grafana.at = "for"
  /\ Len(grafana.results) < Len(grafana.datasources)
  /\ \E response \in CreateResponses(Datasource, grafana.created) :
       LET called == Append(grafana.calls,
                            [op |-> "create_datasource", arg |-> Datasource,
                             raised |-> "error" \in DOMAIN response])
       IN IF "error" \in DOMAIN response
          THEN app_state' = [grafana EXCEPT !.calls = called, !.at = "done",
                             !.outcome = [kind |-> "raise", exc |-> response.error]]
          ELSE app_state' = [grafana EXCEPT
                             !.calls = called,
                             !.created = Append(@, Datasource),
                             !.results = Append(@, response.json),
                             !.at = "for"]
  /\ UNCHANGED http_pipeline

\* result = client.create_datasource(datasource); results.append(result);
\* if 'id' in result: ...
create_datasource ==
  /\ grafana.at = "for"
  /\ Len(grafana.results) < Len(grafana.datasources)
  /\ \E response \in CreateResponses(Datasource, grafana.created) :
       LET called == Append(grafana.calls,
                            [op |-> "create_datasource", arg |-> Datasource,
                             raised |-> "error" \in DOMAIN response])
       IN IF "error" \in DOMAIN response
          THEN app_state' = [grafana EXCEPT !.calls = called, !.at = "done",
                             !.outcome = [kind |-> "raise", exc |-> response.error]]
          ELSE app_state' = [grafana EXCEPT
                             !.calls = called,
                             !.created = Append(@, Datasource),
                             !.results = Append(@, response.json),
                             !.at = IF "id" \in DOMAIN response.json THEN "test" ELSE "for"]
  /\ UNCHANGED http_pipeline

\* mutant: a failed connection test is swallowed and the loop goes on
test_datasource_swallowing ==
  /\ grafana.at = "test"
  /\ LET result == grafana.results[Len(grafana.results)]
     IN \E ok \in BOOLEAN :
          LET called == Append(grafana.calls,
                               [op |-> "test_datasource", arg |-> result.id, raised |-> ~ok])
          IN
          app_state' = [grafana EXCEPT !.calls = called, !.at = "for"]
  /\ UNCHANGED http_pipeline

\* client.test_datasource(result['id'])
test_datasource ==
  /\ grafana.at = "test"
  /\ LET result == grafana.results[Len(grafana.results)]
     IN \E ok \in BOOLEAN :
          LET called == Append(grafana.calls,
                               [op |-> "test_datasource", arg |-> result.id, raised |-> ~ok])
          IN
          IF ok
          THEN app_state' = [grafana EXCEPT !.calls = called, !.at = "for"]
          ELSE app_state' = [grafana EXCEPT !.calls = called, !.at = "done",
                             !.outcome = [kind |-> "raise", exc |-> HTTPError(HealthUrl(result.id))]]
  /\ UNCHANGED http_pipeline

\* return results
setup_datasources ==
  /\ grafana.at = "for"
  /\ Len(grafana.results) = Len(grafana.datasources)
  /\ app_state' = [grafana EXCEPT !.at = "done",
                   !.outcome = [kind |-> "return", value |-> grafana.results]]
  /\ UNCHANGED http_pipeline

NextGrafana ==
  \/ create_datasource
  \/ test_datasource
  \/ setup_datasources

SpecGrafana == InitGrafana /\ [][NextGrafana]_vars

\* the client calls, all returned, that go with the first n datasources and
\* their results
RECURSIVE ExpectedCalls(_)
ExpectedCalls(n) ==
  IF n = 0 THEN <<>>
  ELSE ExpectedCalls(n - 1)
         \o <<[op |-> "create_datasource", arg |-> grafana.datasources[n], raised |-> FALSE]>>
         \o (IF "id" \in DOMAIN grafana.results[n]
             THEN <<[op |-> "test_datasource", arg |-> grafana.results[n].id,
                     raised |-> FALSE]>>
             ELSE <<>>)

CallCount(op) == Cardinality({ k \in DOMAIN grafana.calls : grafana.calls[k].op = op })

\* C22: setup_datasources takes the datasources in input order, calls
\* create_datasource once for each and then test_datasource once with the
\* returned id exactly when the result holds an 'id', and returns the creation
\* results in input order, one per datasource; when every result has an id
\* there are as many create calls and as many test calls as datasources.
C22_CreateThenTestInOrder ==
  /\ grafana.at = "for" => grafana.calls = ExpectedCalls(Len(grafana.results))
  /\ grafana.outcome.kind = "return" =>
       /\ grafana.calls = ExpectedCalls(Len(grafana.datasources))
       /\ grafana.outcome.value = grafana.results
       /\ Len(grafana.outcome.value) = Len(grafana.datasources)
       /\ \A k \in DOMAIN grafana.datasources :
            grafana.outcome.value[k].name = grafana.datasources[k].name
       /\ (\A k \in DOMAIN grafana.results : "id" \in DOMAIN grafana.results[k]) =>
            /\ CallCount("create_datasource") = Len(grafana.datasources)
            /\ CallCount("test_datasource") = Len(grafana.datasources)

\* Prometheus then Loki were set up, both results had an id: two create calls
\* and two test calls, as in test_datasource_setup
C22_Witness ==
  /\ grafana.outcome.kind = "return"
  /\ grafana.datasources = <<mock_prometheus_config, mock_loki_config>>
  /\ CallCount("create_datasource") = 2
  /\ CallCount("test_datasource") = 2
  /\ grafana.calls[4] = [op |-> "test_datasource", arg |-> 2, raised |-> FALSE]

\* a client call has raised
Failed == \E k \in DOMAIN grafana.calls : grafana.calls[k].raised

\* C29: when create_datasource or test_datasource raises for the k-th
\* datasource, setup_datasources ends with that exception: the failing call is
\* its last one, so no later datasource is attempted; the datasources before
\* k (and k itself when it was its test that failed) stay created in Grafana,
\* nothing deletes them; and the results gathered so far are never returned.
C29_StopsAtFirstFailureWithoutRollback ==
  /\ [](Failed =>
          /\ grafana.outcome.kind = "raise"
          /\ grafana.calls[Len(grafana.calls)].raised
          /\ \A k \in 1..(Len(grafana.calls) - 1) : ~grafana.calls[k].raised
          /\ CallCount("create_datasource") - 1 <= Len(grafana.created)
          /\ grafana.created = SubSeq(grafana.datasources, 1, Len(grafana.created)))
  /\ [][Failed => grafana' = grafana]_vars

\* the connection test of the second of three datasources failed: two data
\* sources exist in Grafana, the third was never posted
C29_Witness ==
  /\ Failed
  /\ Len(grafana.datasources) = 3
  /\ grafana.calls[Len(grafana.calls)].op = "test_datasource"
  /\ CallCount("create_datasource") = 2
  /\ Len(grafana.created) = 2
  /\ grafana.outcome.kind = "raise"

\* =========================================================================
\* setup_opentelemetry, in its two versions: app/core/opentelemetry_config.py
\* ("core") and src/ainative/app/config/opentelemetry_config.py ("config")
\* =========================================================================
MaxSetupCalls == 2

\* the FastAPI applications of the process
Apps == {"app", "other_app"}

OTEL_EXPORTER_OTLP_TRACES_ENDPOINT == "OTEL_EXPORTER_OTLP_TRACES_ENDPOINT"
OTEL_EXPORTER_OTLP_METRICS_ENDPOINT == "OTEL_EXPORTER_OTLP_METRICS_ENDPOINT"
OTEL_EXPORTER_OTLP_LOGS_ENDPOINT == "OTEL_EXPORTER_OTLP_LOGS_ENDPOINT"

Pipelines == {"traces", "metrics", "logs"}

EndpointVariable(pipeline) ==
  CASE pipeline = "traces" -> OTEL_EXPORTER_OTLP_TRACES_ENDPOINT
    [] pipeline = "metrics" -> OTEL_EXPORTER_OTLP_METRICS_ENDPOINT
    [] pipeline = "logs" -> OTEL_EXPORTER_OTLP_LOGS_ENDPOINT

Collector == <<"http://collector:4317">>

\* os.environ: each endpoint variable is unset, set to "" or set to a URL
Environments ==
  UNION { [names -> {<<>>, Collector}] :
            names \in SUBSET { EndpointVariable(pipeline) : pipeline \in Pipelines } }

\* os.environ.get(key)
environ_get(environ, key) == IF key \in DOMAIN environ THEN environ[key] ELSE None

\* The process in which setup_opentelemetry is called: the applications
\* with their marks, the global providers, the root logger, and the call
\* made last; no request is served meanwhile.
otel == app_state

\* the process before any setup call
InitOtel ==
  /\ NoRequests
  /\ app_state \in
       { [version |-> version,
          environ |-> environ,
          LoggerProvider |-> imported,        \* otel_logs and LoggerProvider were imported
          HAS_LOGGING_HANDLER |-> has_handler,
          \* the process
          marked |-> {},                      \* apps with _is_instrumented_by_otel = True
          propagator |-> FALSE,               \* set_global_textmap was called
          providers |-> {},                   \* pipelines whose global provider is set
          handlers |-> 0,                     \* LoggingHandlers on the root logger
          instrumented |-> [app \in Apps |-> 0],  \* instrument_app calls that returned
          \* the last call made
          calls |-> 0,
          app |-> "app",
          at |-> "idle",
          reached |-> <<>>,                   \* the steps it came to, in order
          configured |-> {},                  \* pipelines it configured
          failed |-> {},                      \* steps in which something raised
          instrument_calls |-> 0,
          log |-> <<>>,
          outcome |-> "none"] :
           version \in {"core", "config"},
           environ \in Environments,
           imported \in BOOLEAN,
           has_handler \in BOOLEAN }
  /\ otel.version = "core" => otel.LoggerProvider /\ otel.HAS_LOGGING_HANDLER

\* a call setup_opentelemetry(app) is entered
Called(app) ==
  [otel EXCEPT !.calls = @ + 1, !.app = app, !.reached = <<>>, !.configured = {},
               !.failed = {}, !.instrument_calls = 0, !.log = <<>>,
               !.outcome = "running"]

OtelLogged(level, message) == [level |-> level, message |-> message]

Endpoint(pipeline) == environ_get(otel.environ, EndpointVariable(pipeline))

\* ------------------------------------------------ app/core version
\* mutant: _is_instrumented_by_otel is not looked at
core_setup_opentelemetry_unchecked(app) ==
  /\ otel.version = "core"
  /\ otel.at = "idle"
  /\ otel.calls < MaxSetupCalls
  /\ app_state' = [Called(app) EXCEPT !.propagator = TRUE, !.at = "tracing"]
  /\ UNCHANGED http_pipeline

\* lines 70-88: return at once for an app already marked, otherwise set the
\* propagator and build the resource
core_setup_opentelemetry(app) ==
  /\ otel.version = "core"
  /\ otel.at = "idle"
  /\ otel.calls < MaxSetupCalls
  /\ IF app \in otel.marked
     THEN app_state' = [Called(app) EXCEPT
                     !.log = <<OtelLogged("INFO",
                                <<"Application is already instrumented with OpenTelemetry">>)>>,
                     !.outcome = "returned"]
     ELSE app_state' = [Called(app) EXCEPT !.propagator = TRUE, !.at = "tracing"]
  /\ UNCHANGED http_pipeline

\* one of _setup_tracing, _setup_metrics, _setup_logging: nothing is caught, so
\* an exception ends setup_opentelemetry; it can come before the global
\* provider is set or, in _setup_logging, from LoggingHandler after it
CoreSetup(step, endpoint, next) ==
  LET here == [otel EXCEPT !.reached = Append(@, step)]
  IN IF Falsy(endpoint)
     THEN app_state' = [here EXCEPT
                     !.at = next,
                     !.log = Append(@, OtelLogged("INFO",
                               <<EndpointVariable(step), " not set, skipping setup">>))]
     ELSE \E raises \in {"nothing", "exporter"} \cup (IF step = "logs" THEN {"handler"} ELSE {}) :
            CASE raises = "nothing" ->
                   app_state' = [here EXCEPT
                              !.at = next,
                              !.configured = @ \cup {step},
                              !.providers = @ \cup {step},
                              !.handlers = IF step = "logs" THEN @ + 1 ELSE @,
                              !.log = Append(@, OtelLogged("INFO",
                                        <<"OpenTelemetry ", step, " configured with endpoint: ",
                                          endpoint[1]>>))]
              [] raises = "exporter" ->
                   app_state' = [here EXCEPT !.at = "idle", !.failed = @ \cup {step},
                                        !.outcome = "raised"]
              [] raises = "handler" ->
                   app_state' = [here EXCEPT !.at = "idle", !.failed = @ \cup {step},
                                        !.providers = @ \cup {step},
                                        !.outcome = "raised"]

core_setup_tracing ==
  /\ otel.version = "core"
  /\ otel.at = "tracing"
  /\ CoreSetup("traces", Endpoint("traces"), "metrics")
  /\ UNCHANGED http_pipeline

\* mutant: metrics are set up when the traces endpoint is set
core_setup_metrics_by_traces_endpoint ==
  /\ otel.version = "core"
  /\ otel.at = "metrics"
  /\ CoreSetup("metrics", Endpoint("traces"), "logging")
  /\ UNCHANGED http_pipeline

core_setup_metrics ==
  /\ otel.version = "core"
  /\ otel.at = "metrics"
  /\ CoreSetup("metrics", Endpoint("metrics"), "logging")
  /\ UNCHANGED http_pipeline

core_setup_logging ==
  /\ otel.version = "core"
  /\ otel.at = "logging"
  /\ CoreSetup("logs", Endpoint("logs"), "instrument")
  /\ UNCHANGED http_pipeline

\* lines 102-112: FastAPIInstrumentor.instrument_app(app, ...), then the mark
core_instrument_app ==
  /\ otel.version = "core"
  /\ otel.at = "instrument"
  /\ LET here == [otel EXCEPT !.reached = Append(@, "instrument"), !.at = "idle"]
     IN \E raises \in BOOLEAN :
          IF raises
          THEN app_state' = [here EXCEPT !.failed = @ \cup {"instrument"}, !.outcome = "raised"]
          ELSE app_state' = [here EXCEPT
                          !.instrumented[otel.app] = @ + 1,
                          !.instrument_calls = @ + 1,
                          !.marked = @ \cup {otel.app},
                          !.log = Append(@, OtelLogged("INFO",
                                    <<"OpenTelemetry instrumentation completed">>)),
                          !.outcome = "returned"]
  /\ UNCHANGED http_pipeline

\* ------------------------------------------------ ainative/app/config version
\* lines 124-134: the propagator and the resource; there is no mark to test
config_setup_opentelemetry(app) ==
  /\ otel.version = "config"
  /\ otel.at = "idle"
  /\ otel.calls < MaxSetupCalls
  /\ app_state' = [Called(app) EXCEPT !.propagator = TRUE, !.at = "tracing"]
  /\ UNCHANGED http_pipeline

\* one of the three blocks "if endpoint: try: ... except Exception as e:
\* logger.error(...)"; the logs block also asks that the logging components
\* were imported, and has its own try around LoggingHandler
ConfigSetup(step, enabled, next, contained) ==
  LET here == [otel EXCEPT !.reached = Append(@, step)]
      endpoint == Endpoint(step)
  IN IF ~enabled
     THEN app_state' = [here EXCEPT !.at = next]
     ELSE \E raises \in {"nothing", "exporter"} \cup
                         (IF step = "logs" /\ otel.HAS_LOGGING_HANDLER
                          THEN {"handler"} ELSE {}) :
            CASE raises = "nothing" ->
                   app_state' = [here EXCEPT
                              !.at = next,
                              !.configured = @ \cup {step},
                              !.providers = @ \cup {step},
                              !.handlers = IF step = "logs" /\ otel.HAS_LOGGING_HANDLER
                                           THEN @ + 1 ELSE @,
                              !.log = @ \o
                                <<OtelLogged("INFO",
                                    <<"OTLP ", step, " exporter configured for endpoint: ",
                                      endpoint[1]>>)>> \o
                                (IF step # "logs" THEN <<>>
                                 ELSE IF otel.HAS_LOGGING_HANDLER
                                 THEN <<OtelLogged("INFO",
                                          <<"Standard Python logging integrated with OpenTelemetry.">>)>>
                                 ELSE <<OtelLogged("WARNING",
                                          <<"LoggingHandler not available. Standard Python logging not integrated with OTel.">>)>>)]
              [] raises = "exporter" ->
                   IF contained
                   THEN app_state' = [here EXCEPT
                                   !.at = next,
                                   !.failed = @ \cup {step},
                                   !.log = Append(@, OtelLogged("ERROR",
                                             <<"Failed to configure OTLP ", step, " exporter">>))]
                   ELSE app_state' = [here EXCEPT !.at = "idle", !.failed = @ \cup {step},
                                             !.outcome = "raised"]
              [] raises = "handler" ->
                   app_state' = [here EXCEPT
                              !.at = next,
                              !.configured = @ \cup {step},
                              !.providers = @ \cup {step},
                              !.failed = @ \cup {"handler"},
                              !.log = @ \o
                                <<OtelLogged("INFO",
                                    <<"OTLP ", step, " exporter configured for endpoint: ",
                                      endpoint[1]>>),
                                  OtelLogged("WARNING",
                                    <<"Failed to integrate standard logging with OpenTelemetry">>)>>]

\* mutant: the try/except around the trace exporter is missing
config_setup_tracing_uncontained ==
  /\ otel.version = "config"
  /\ otel.at = "tracing"
  /\ ConfigSetup("traces", ~Falsy(Endpoint("traces")), "metrics", FALSE)
  /\ UNCHANGED http_pipeline

\* lines 136-164
config_setup_tracing ==
  /\ otel.version = "config"
  /\ otel.at = "tracing"
  /\ ConfigSetup("traces", ~Falsy(Endpoint("traces")), "metrics", TRUE)
  /\ UNCHANGED http_pipeline

\* lines 166-184
config_setup_metrics ==
  /\ otel.version = "config"
  /\ otel.at = "metrics"
  /\ ConfigSetup("metrics", ~Falsy(Endpoint("metrics")), "logging", TRUE)
  /\ UNCHANGED http_pipeline

\* lines 186-225
config_setup_logging ==
  /\ otel.version = "config"
  /\ otel.at = "logging"
  /\ ConfigSetup("logs", ~Falsy(Endpoint("logs")) /\ otel.LoggerProvider, "instrument", TRUE)
  /\ UNCHANGED http_pipeline

\* lines 227-236: instrument_app inside its own try, then the function ends
config_instrument_app ==
  /\ otel.version = "config"
  /\ otel.at = "instrument"
  /\ LET here == [otel EXCEPT !.reached = Append(@, "instrument"), !.at = "idle",
                               !.outcome = "returned"]
     IN \E raises \in BOOLEAN :
          IF raises
          THEN app_state' = [here EXCEPT
                          !.failed = @ \cup {"instrument"},
                          !.log = Append(@, OtelLogged("ERROR",
                                    <<"Failed to instrument FastAPI app with OpenTelemetry">>))]
          ELSE app_state' = [here EXCEPT
                          !.instrumented[otel.app] = @ + 1,
                          !.instrument_calls = @ + 1,
                          !.log = Append(@, OtelLogged("INFO",
                                    <<"FastAPI application instrumented with OpenTelemetry.">>))]
  /\ UNCHANGED http_pipeline

NextOtel ==
  \/ \E app \in Apps : core_setup_opentelemetry(app)
  \/ core_setup_tracing
  \/ core_setup_metrics
  \/ core_setup_logging
  \/ core_instrument_app
  \/ \E app \in Apps : config_setup_opentelemetry(app)
  \/ config_setup_tracing
  \/ config_setup_metrics
  \/ config_setup_logging
  \/ config_instrument_app

SpecOtel == InitOtel /\ [][NextOtel]_vars

\* the last setup call has ended
Finished == otel.calls > 0 /\ otel.at = "idle"

Reached(step) == \E k \in DOMAIN otel.reached : otel.reached[k] = step

\* C23: in setup_opentelemetry each of the pipelines traces, metrics and logs
\* is configured, and its global provider set, exactly when its own endpoint
\* variable is set to a non-empty value, whatever the other two are; and the
\* application is instrumented exactly once per setup call.
C23_ConfiguredIffEndpointSet ==
  Finished =>
    /\ \A step \in Pipelines :
         /\ step \in otel.configured <=> ~Falsy(Endpoint(step))
         /\ step \in otel.configured => step \in otel.providers
    /\ otel.instrument_calls = 1

\* C23, amended: a pipeline is configured, and its global provider set,
\* exactly when the call reaches the pipeline's step, its own endpoint
\* variable is set to a non-empty value and nothing raises in the step (the
\* config version also needs the logging components to be imported for logs);
\* the other two endpoint variables play no part. The config version reaches
\* all four steps in every call; the core version reaches none for an app
\* already marked and stops at the first step that raises. The application is
\* instrumented once when instrument_app is reached and returns, else not.
C23_ConfiguredIffEndpointSetAmended ==
  /\ \A step \in Pipelines :
       /\ step \in otel.configured <=>
            /\ Reached(step)
            /\ ~Falsy(Endpoint(step))
            /\ step \notin otel.failed
            /\ (otel.version = "config" /\ step = "logs") => otel.LoggerProvider
       /\ step \in otel.configured => step \in otel.providers
  /\ Finished =>
       /\ otel.instrument_calls =
            IF Reached("instrument") /\ "instrument" \notin otel.failed THEN 1 ELSE 0
       /\ otel.version = "config" =>
            otel.reached = <<"traces", "metrics", "logs", "instrument">>
       /\ otel.version = "core" =>
            \/ otel.reached = <<>> /\ otel.app \in otel.marked
            \/ otel.outcome = "raised" /\ otel.reached[Len(otel.reached)] \in otel.failed
            \/ otel.reached = <<"traces", "metrics", "logs", "instrument">>

\* only the traces endpoint is set to a URL (metrics is unset, logs is ""):
\* the call configured traces alone and instrumented the app once
C23_Witness ==
  /\ Finished
  /\ otel.configured = {"traces"}
  /\ otel.providers = {"traces"}
  /\ DOMAIN otel.environ = {OTEL_EXPORTER_OTLP_TRACES_ENDPOINT, OTEL_EXPORTER_OTLP_LOGS_ENDPOINT}
  /\ otel.environ[OTEL_EXPORTER_OTLP_LOGS_ENDPOINT] = <<>>
  /\ otel.failed = {}
  /\ otel.instrument_calls = 1

\* what a setup call can change outside itself
Process == <<otel.marked, otel.propagator, otel.providers, otel.handlers, otel.instrumented>>

\* C24: the app/core setup_opentelemetry is idempotent per application: a
\* call on an app already marked as instrumented returns at once, sets no
\* provider, adds no logging handler and does not instrument the app again,
\* so no app is instrumented twice; and an app gets its mark only in the step
\* in which instrument_app returns, so a call that raises leaves it unmarked.
C24_IdempotentPerApplication ==
  /\ [](otel.version = "core" =>
          \A app \in Apps :
            /\ otel.instrumented[app] <= 1
            /\ app \in otel.marked <=> otel.instrumented[app] = 1)
  /\ [][(otel.version = "core" /\ otel'.calls = otel.calls + 1 /\ otel'.app \in otel.marked) =>
          /\ Process' = Process
          /\ otel'.at = "idle"
          /\ otel'.outcome = "returned"
          /\ otel'.reached = <<>>]_vars
  /\ [][(otel.version = "core" /\ otel'.outcome = "raised") =>
          otel'.marked = otel.marked]_vars

\* the second call on the same app came back at once: the app is still
\* instrumented once and the root logger still has the one handler
C24_Witness ==
  /\ otel.version = "core"
  /\ Finished
  /\ otel.calls = 2
  /\ otel.app \in otel.marked
  /\ otel.reached = <<>>
  /\ otel.outcome = "returned"
  /\ otel.instrumented[otel.app] = 1
  /\ otel.providers = Pipelines
  /\ otel.handlers = 1

\* C25: the ainative/app/config setup_opentelemetry never raises: a failure
\* in the trace, metric or log exporter set-up or in instrument_app is logged
\* at error and contained, and the steps after it are still come to, in the
\* order traces, metrics, logs, instrumentation.
C25_FailuresContained ==
  otel.version = "config" =>
    /\ otel.outcome # "raised"
    /\ otel.reached = SubSeq(<<"traces", "metrics", "logs", "instrument">>, 1, Len(otel.reached))
    /\ Finished => otel.outcome = "returned" /\ Len(otel.reached) = 4
    /\ Cardinality({ k \in DOMAIN otel.log : otel.log[k].level = "ERROR" })
         = Cardinality(otel.failed \ {"handler"})
    /\ "handler" \in otel.failed =>
         \E k \in DOMAIN otel.log :
           /\ otel.log[k].level = "WARNING"
           /\ otel.log[k].message = <<"Failed to integrate standard logging with OpenTelemetry">>

\* the trace exporter failed, yet metrics and logs were configured and the
\* app was instrumented, and the call returned
C25_Witness ==
  /\ otel.version = "config"
  /\ Finished
  /\ otel.failed = {"traces"}
  /\ otel.configured = {"metrics", "logs"}
  /\ otel.instrument_calls = 1
  /\ otel.outcome = "returned"
  /\ otel.log[1].level = "ERROR"

\* =========================================================================
\* infrastructure/main.py: the application's HTTPException handler, on its own
\* =========================================================================
\* HTTP_REASON_PHRASES of main.py (the table of the test application above
\* has three of these six entries)
HTTP_REASON_PHRASES_main ==
  (400 :> "Bad Request") @@ (401 :> "Unauthorized") @@ (403 :> "Forbidden") @@
  (404 :> "Not Found") @@ (422 :> "Unprocessable Entity") @@
  (500 :> "Internal Server Error")

\* mutant: the title is looked up in the three-entry table
main_http_exception_handler_short_table(url, exc) ==
  JSONResponse(exc.status_code,
    [type |-> <<"https://ainative.dev/errors/">> \o IntToStr(exc.status_code),
     title |-> GetAttr(HTTP_REASON_PHRASES, exc.status_code, "Error"),
     status |-> exc.status_code,
     detail |-> exc.detail,
     instance |-> url.path,
     validation_errors |-> None])

\* @app.exception_handler(HTTPException) async def http_exception_handler
main_http_exception_handler(url, exc) ==
  JSONResponse(exc.status_code,
    [type |-> <<"https://ainative.dev/errors/">> \o IntToStr(exc.status_code),
     title |-> GetAttr(HTTP_REASON_PHRASES_main, exc.status_code, "Error"),
     status |-> exc.status_code,
     detail |-> exc.detail,
     instance |-> url.path,
     validation_errors |-> None])

\* the HTTPExceptions that reach the handler: the six statuses of the table
\* and three outside it
MainStatusCodes == {400, 401, 403, 404, 409, 418, 422, 500, 503}
MainDetails == { <<"Agent with ID ", "nonexistent", " not found">>, <<"Forbidden">> }
MainPaths == { PathAgents, AgentPath("nonexistent") }

\* each request has got as far as an HTTPException raised below
\* ExceptionMiddleware
InitMain ==
  /\ pc = [r \in Requests |-> "resume"]
  /\ request \in [Requests ->
       { [method |-> "GET", url |-> URL(path), headers |-> EmptyMap, json |-> EmptyMap] :
           path \in MainPaths }]
  /\ route_outcome \in [Requests ->
       { [exc |-> HTTPException(status_code, detail)] :
           status_code \in MainStatusCodes, detail \in MainDetails }]
  /\ call_next_result = route_outcome
  /\ request_state = [r \in Requests |-> EmptyMap]
  /\ correlation_id = [r \in Requests |-> None]
  /\ dispatch_result = [r \in Requests |-> "pending"]
  /\ client_response = [r \in Requests |-> EmptyMap]
  /\ server_raised = [r \in Requests |-> EmptyMap]
  /\ app_state = EmptyMap
  /\ uuid_calls = 0
  /\ log = [r \in Requests |-> <<>>]

\* ExceptionMiddleware calls the handler; its response is the answer
main_http_exception(r) ==
  /\ pc[r] = "resume"
  /\ "exc" \in DOMAIN call_next_result[r]
  /\ client_response' = [client_response EXCEPT ![r] =
       main_http_exception_handler(request[r].url, call_next_result[r].exc)]
  /\ call_next_result' = [call_next_result EXCEPT ![r] = EmptyMap]
  /\ pc' = [pc EXCEPT ![r] = "done"]
  /\ UNCHANGED <<request, request_state, correlation_id, dispatch_result,
                 server_raised, route_outcome, app_state, uuid_calls, log>>

NextMain == \E r \in Requests : main_http_exception(r)

SpecMain == InitMain /\ [][NextMain]_vars

\* the reason phrase that goes with a status code of the handler's table
ReasonPhrase(status_code) ==
  CASE status_code = 400 -> "Bad Request"
    [] status_code = 401 -> "Unauthorized"
    [] status_code = 403 -> "Forbidden"
    [] status_code = 404 -> "Not Found"
    [] status_code = 422 -> "Unprocessable Entity"
    [] status_code = 500 -> "Internal Server Error"
    [] OTHER -> "Error"

\* C26: the application's HTTPException handler answers an HTTPException
\* with status S and detail D with HTTP status S and a problem-details body
\* whose type is https://ainative.dev/errors/S, status S, detail str(D),
\* instance the request path, and title the reason phrase of S when S is one
\* of 400, 401, 403, 404, 422, 500 and "Error" for any other S.
C26_HTTPExceptionToProblemDetails ==
  \A r \in Requests :
    Responded(r) =>
      LET exc == route_outcome[r].exc
      IN /\ client_response[r].status_code = exc.status_code
         /\ Body(r).type = <<"https://ainative.dev/errors/">> \o IntToStr(exc.status_code)
         /\ Body(r).status = exc.status_code
         /\ Body(r).detail = exc.detail
         /\ Body(r).instance = request[r].url.path
         /\ Body(r).title = ReasonPhrase(exc.status_code)
         /\ exc.status_code \notin {400, 401, 403, 404, 422, 500} => Body(r).title = "Error"

\* a 403 was answered with title Forbidden and a 409 with title Error
C26_Witness ==
  \E r, q \in Requests :
    /\ Responded(r) /\ Responded(q)
    /\ route_outcome[r].exc.status_code = 403
    /\ Body(r).title = "Forbidden"
    /\ Body(r).type = <<"https://ainative.dev/errors/", "4", "0", "3">>
    /\ route_outcome[q].exc.status_code = 409
    /\ Body(q).title = "Error"

\* =========================================================================
\* the agent routes again: empty service results and the catch-all clauses
\* =========================================================================
\* the agent service returned a falsy result to the route of request r
ServiceReturnedEmpty(r) ==
  /\ "service" \in DOMAIN route_outcome[r]
  /\ "return_value" \in DOMAIN route_outcome[r].service
  /\ DOMAIN route_outcome[r].service.return_value = {}

\* C27: when the agent service returns an empty result for the id, get_agent
\* and update_agent answer 404 with detail "Agent with ID <id> not found";
\* the routes' own "except Exception" clause does not turn that 404 into a 500.
C27_EmptyResultAnswered404 ==
  \A r \in Requests : \A agent_id \in AgentIds :
    (/\ Responded(r)
     /\ request[r].method \in {"GET", "PUT"}
     /\ request[r].url.path = AgentPath(agent_id)
     /\ ServiceReturnedEmpty(r)) =>
      /\ client_response[r].status_code = 404
      /\ Body(r).status = 404
      /\ Body(r).detail = <<"Agent with ID ", agent_id, " not found">>
      /\ Body(r).title = "Not Found"

\* PUT /agents/nonexistent, the service returned {}: answered 404
C27_Witness ==
  \E r \in Requests :
    /\ Responded(r)
    /\ request[r].method = "PUT"
    /\ request[r].url.path = AgentPath("nonexistent")
    /\ ServiceReturnedEmpty(r)
    /\ client_response[r].status_code = 404
    /\ Body(r).detail = <<"Agent with ID ", "nonexistent", " not found">>

\* the agent service raised in the route of request r
ServiceRaised(r) ==
  "service" \in DOMAIN route_outcome[r] /\ ServiceRaises(route_outcome[r].service)

\* f"Failed to ...: " of the two routes of the path /agents
FailedTo(method) ==
  IF method = "POST" THEN "Failed to create agent: " ELSE "Failed to list agents: "

\* C28: in create_agent and list_agents every exception the agent service
\* raises, an HTTPException with a status of its own (404, 409) included,
\* becomes an HTTPException of status 500 with detail "Failed to ...: "
\* followed by str of the exception; a status raised by the service is never
\* passed through to the client by these two routes.
C28_CollectionRoutesWrapEverything ==
  \A r \in Requests :
    (Responded(r) /\ ~AgentIdRoute(r) /\ ServiceRaised(r)) =>
      LET exc == route_outcome[r].service.side_effect
      IN /\ client_response[r].status_code = HTTP_500_INTERNAL_SERVER_ERROR
         /\ Body(r).status = HTTP_500_INTERNAL_SERVER_ERROR
         /\ Body(r).detail = <<FailedTo(request[r].method)>> \o StrOfException(exc)
         /\ exc.cls = "HTTPException" =>
              /\ client_response[r].status_code # exc.status_code
              /\ Body(r).detail =
                   <<FailedTo(request[r].method)>> \o IntToStr(exc.status_code)
                     \o <<": ">> \o exc.detail

\* POST /agents, the service raised HTTPException 409: answered 500 with
\* detail "Failed to create agent: 409: Agent already exists"
C28_Witness ==
  \E r \in Requests :
    /\ Responded(r) /\ ~AgentIdRoute(r) /\ ServiceRaised(r)
    /\ request[r].method = "POST"
    /\ route_outcome[r].service.side_effect.cls = "HTTPException"
    /\ route_outcome[r].service.side_effect.status_code = 409
    /\ client_response[r].status_code = 500
    /\ Body(r).detail = <<"Failed to create agent: ", "4", "0", "9", ": ",
                          "Agent already exists">>

\* =========================================================================
\* app/api/endpoints/logging.py: POST /frontend-log
\* =========================================================================
PathFrontendLog == <<"/frontend-log">>

\* FrontendLogPayload's fields and the JSON keys (aliases) they are read from
FrontendLogAliases ==
  [level |-> "level", message |-> "message", correlation_id |-> "correlationId",
   user_id |-> "userId", component_name |-> "componentName", stack |-> "stack",
   component_stack |-> "componentStack", browser_info |-> "browserInfo",
   additional_context |-> "additionalContext"]

FrontendLogRequired == <<"level", "message">>

\* the level strings a frontend sends: the four the route knows, and others
FrontendLevels == { "error", "warn", "info", "debug", "ERROR", "critical" }

\* the JSON bodies posted for request r
FrontendLogBodies(r) ==
  { ("level" :> level) @@ ("message" :> <<"Something broke">>) @@ rest :
      level \in FrontendLevels,
      rest \in { EmptyMap,
                 ("correlationId" :> <<>>),
                 ("correlationId" :> ClientId(r)) @@ ("userId" :> <<"user-1">>),
                 ("correlation_id" :> ClientId(r)) @@ ("stack" :> <<"Error: at App.tsx:1">>) } }
  \cup { ("level" :> "error") }

\* pydantic's errors for a body, in field order
RECURSIVE FrontendLogErrorsFrom(_, _)
FrontendLogErrorsFrom(i, data) ==
  IF i > Len(FrontendLogRequired) THEN <<>>
  ELSE (IF FrontendLogRequired[i] \in DOMAIN data THEN <<>>
        ELSE <<[type |-> "missing", loc |-> <<"body", FrontendLogRequired[i]>>,
                msg |-> "Field required"]>>)
       \o FrontendLogErrorsFrom(i + 1, data)

FrontendLogErrors(data) == FrontendLogErrorsFrom(1, data)

\* FrontendLogPayload(**data): each field from its alias, None when absent
FrontendLogPayload(data) ==
  [field \in DOMAIN FrontendLogAliases |->
     IF FrontendLogAliases[field] \in DOMAIN data
     THEN data[FrontendLogAliases[field]] ELSE None]

\* mutant: a level the route does not know goes to debug
LogMethod_unknown_to_debug(level) ==
  CASE level = "error" -> [level |-> "ERROR", message |-> "Frontend Error: {details}"]
    [] level = "warn" -> [level |-> "WARNING", message |-> "Frontend Warning: {details}"]
    [] level = "info" -> [level |-> "INFO", message |-> "Frontend Info: {details}"]
    [] level = "debug" -> [level |-> "DEBUG", message |-> "Frontend Debug: {details}"]
    [] OTHER -> [level |-> "DEBUG", message |-> "Frontend Log (level: {level}): {details}"]

\* lines 71-80: the logger method and the message the level selects
LogMethod(level) ==
  CASE level = "error" -> [level |-> "ERROR", message |-> "Frontend Error: {details}"]
    [] level = "warn" -> [level |-> "WARNING", message |-> "Frontend Warning: {details}"]
    [] level = "info" -> [level |-> "INFO", message |-> "Frontend Info: {details}"]
    [] level = "debug" -> [level |-> "DEBUG", message |-> "Frontend Debug: {details}"]
    [] OTHER -> [level |-> "INFO", message |-> "Frontend Log (level: {level}): {details}"]

\* lines 59-68: log_details without its None values
filtered_log_details(log_payload) ==
  LET log_details ==
        [message |-> log_payload.message,
         stack |-> log_payload.stack,
         component_stack |-> log_payload.component_stack,
         browser |-> log_payload.browser_info,
         context |-> log_payload.additional_context]
      kept == { k \in DOMAIN log_details : log_details[k] # None }
  IN [k \in kept |-> log_details[k]]

\* POST /frontend-log: FastAPI validates the body, then the route runs
receive_frontend_log(r) ==
  /\ pc[r] = "idle"
  /\ \E data \in FrontendLogBodies(r) : \E has_client \in BOOLEAN :
       /\ request' = [request EXCEPT ![r] =
            [method |-> "POST", url |-> URL(PathFrontendLog), headers |-> EmptyMap,
             json |-> data,
             client |-> IF has_client THEN <<"testclient">> ELSE None]]
       /\ IF FrontendLogErrors(data) # <<>>
          THEN /\ client_response' = [client_response EXCEPT ![r] =
                    JSONResponse(HTTP_422_UNPROCESSABLE_ENTITY,
                                 [detail |-> FrontendLogErrors(data)])]
               /\ route_outcome' = [route_outcome EXCEPT ![r] =
                    [invalid |-> RequestValidationError(FrontendLogErrors(data))]]
               /\ UNCHANGED <<correlation_id, uuid_calls, log>>
          ELSE LET log_payload == FrontendLogPayload(data)
                   generate == Falsy(log_payload.correlation_id)
                   cid == IF generate THEN UuidStr(uuid4(r))
                          ELSE log_payload.correlation_id
                   record ==
                     LogMethod(log_payload.level) @@
                     [correlation_id |-> cid,
                      user_id |-> log_payload.user_id,
                      frontend_component |-> log_payload.component_name,
                      client_ip |-> IF has_client THEN <<"testclient">> ELSE <<"unknown">>,
                      log_source |-> "frontend",
                      details |-> filtered_log_details(log_payload)]
               IN /\ correlation_id' = [correlation_id EXCEPT ![r] = cid]
                  /\ uuid_calls' = IF generate THEN uuid_calls + 1 ELSE uuid_calls
                  /\ log' = [log EXCEPT ![r] = Append(@, record)]
                  /\ route_outcome' = [route_outcome EXCEPT ![r] =
                       [log_payload |-> log_payload]]
                  /\ client_response' = [client_response EXCEPT ![r] =
                       JSONResponse(202, [status |-> "log received"])]
  /\ pc' = [pc EXCEPT ![r] = "done"]
  /\ UNCHANGED <<request_state, call_next_result, dispatch_result,
                 server_raised, app_state>>

NextLogging == \E r \in Requests : receive_frontend_log(r)

SpecLogging == Init /\ [][NextLogging]_vars

\* the body of request r passed FrontendLogPayload's validation
Accepted(r) == Responded(r) /\ "log_payload" \in DOMAIN route_outcome[r]

\* C30: receive_frontend_log accepts every schema-valid payload whatever its
\* level string; it emits exactly one log record, at error for "error",
\* warning for "warn", info for "info", debug for "debug" and info for any
\* other level, bound to the payload's correlation id when that is non-empty
\* and to a newly generated UUID otherwise; then it answers 202 with
\* {"status": "log received"}.
C30_OneRecordPerValidPayload ==
  \A r \in Requests :
    /\ (Responded(r) /\ {"level", "message"} \subseteq DOMAIN request[r].json) => Accepted(r)
    /\ Accepted(r) =>
         LET level == request[r].json.level
             sent == FrontendLogPayload(request[r].json).correlation_id
         IN /\ Len(log[r]) = 1
            /\ log[r][1].level =
                 CASE level = "error" -> "ERROR"
                   [] level = "warn" -> "WARNING"
                   [] level = "info" -> "INFO"
                   [] level = "debug" -> "DEBUG"
                   [] OTHER -> "INFO"
            /\ IF sent # None /\ sent # <<>>
               THEN log[r][1].correlation_id = sent
               ELSE /\ IsUuid4Str(log[r][1].correlation_id)
                    /\ \A q \in Requests \ {r} :
                         Accepted(q) => log[q][1].correlation_id # log[r][1].correlation_id
            /\ client_response[r].status_code = 202
            /\ Body(r) = [status |-> "log received"]

\* a payload of level "critical" without a correlation id and one of level
\* "warn" with its own id were both accepted
C30_Witness ==
  \E r, q \in Requests :
    /\ Accepted(r) /\ Accepted(q)
    /\ request[r].json.level = "critical"
    /\ "correlationId" \notin DOMAIN request[r].json
    /\ log[r][1].level = "INFO"
    /\ IsUuid4Str(log[r][1].correlation_id)
    /\ request[q].json.level = "warn"
    /\ log[q][1].level = "WARNING"
    /\ log[q][1].correlation_id = ClientId(q)
    /\ client_response[q].status_code = 202

====
